---- MODULE Spec2Model ----
(***************************************************************************)
(* A model of the geometric core of laptop-screen-editor:                  *)
(*   app/utils/geometry.py     point ordering and perspective size         *)
(*   app/core/perspective.py   extraction / correction / homography        *)
(*   app/core/cropper.py       crop operations                             *)
(*   app/core/resizer.py       resize operations                           *)
(*   app/core/screen_editor.py mask based replacement                      *)
(*                                                                         *)
(* The operations are functions of their arguments.  The state of the      *)
(* model is one call: op is the position of the call ("call" before the    *)
(* function has run, the function's name after it has returned), arg the   *)
(* arguments it was called with and res what it returned.                  *)
(***************************************************************************)
EXTENDS Integers, Sequences, FiniteSets, TLC

VARIABLES op, arg, res

vars == <<op, arg, res>>

\* Python's None, and the value of res before the call has returned.
None == "None"

\* ------------------------------------------------------------------------
\* Integer helpers
\* ------------------------------------------------------------------------

Min2(a, b) == IF a <= b THEN a ELSE b

Max2(a, b) == IF a >= b THEN a ELSE b

\* Python's a // 2 on integers (floor division, also for negative a).
FloorDiv2(a) == IF a >= 0 THEN a \div 2 ELSE -((1 - a) \div 2)

RECURSIVE IsqrtBetween(_, _, _)
\* The k with k * k <= n < (k + 1) * (k + 1), given lo * lo <= n < hi * hi.
IsqrtBetween(n, lo, hi) ==
    IF hi - lo <= 1 THEN lo
    ELSE LET mid == (lo + hi) \div 2
         IN  IF mid * mid <= n THEN IsqrtBetween(n, mid, hi)
             ELSE IsqrtBetween(n, lo, mid)

\* int(np.linalg.norm(v)) for a vector v with integer coordinates whose
\* squared length is n: the floor of the square root.  The float32 square
\* root is exact on the integers of this model (n < 2^24 and the distance of
\* sqrt(n) to the next integer is far above one float32 ulp).  46340 * 46340
\* is the first square above the 32 bit integers of the model checker.
Isqrt(n) == IsqrtBetween(n, 0, Min2(n, 46339) + 1)

\* ------------------------------------------------------------------------
\* Python floats (IEEE 754 binary64, round to nearest, ties to even)
\*
\* The framing code computes ratios and scales as Python floats and takes
\* int() of their products, so the rounding of each operation decides the
\* sizes it produces.  A natural number of any size is a sequence of limbs
\* of LimbBits bits, most significant first.  A float is 0 or
\* m * 2^(e - 52) with m a natural number of exactly 53 bits (5 limbs, the
\* first one 1).  Only non-negative floats occur.
\* ------------------------------------------------------------------------

LimbBits == 13

LimbBase == 8192

RECURSIVE Pow2(_)
Pow2(k) == IF k = 0 THEN 1 ELSE 2 * Pow2(k - 1)

RECURSIVE BitLen(_)
BitLen(n) == IF n = 0 THEN 0 ELSE 1 + BitLen(n \div 2)

Front(s) == SubSeq(s, 1, Len(s) - 1)

Last(s) == s[Len(s)]

Zeros(k) == [i \in 1..k |-> 0]

RECURSIVE BigStrip(_)
BigStrip(a) ==
    IF a = <<>> THEN <<>>
    ELSE IF a[1] = 0 THEN BigStrip(Tail(a)) ELSE a

RECURSIVE BigFromInt(_)
BigFromInt(n) ==
    IF n = 0 THEN <<>>
    ELSE Append(BigFromInt(n \div LimbBase), n % LimbBase)

RECURSIVE BigToInt(_)
BigToInt(a) ==
    IF a = <<>> THEN 0 ELSE BigToInt(Front(a)) * LimbBase + Last(a)

\* a with leading zero limbs up to length k.
BigPad(a, k) == IF Len(a) >= k THEN a ELSE Zeros(k - Len(a)) \o a

RECURSIVE BigMulCarry(_, _, _)
BigMulCarry(a, n, carry) ==
    IF a = <<>> THEN BigFromInt(carry)
    ELSE LET v == Last(a) * n + carry
         IN  Append(BigMulCarry(Front(a), n, v \div LimbBase), v % LimbBase)

\* a * n for a small natural number n.
BigMulSmall(a, n) == BigMulCarry(a, n, 0)

RECURSIVE BigDivStep(_, _, _, _)
BigDivStep(a, d, r, q) ==
    IF a = <<>> THEN [q |-> q, r |-> r]
    ELSE LET v == r * LimbBase + a[1]
         IN  BigDivStep(Tail(a), d, v % d, Append(q, v \div d))

\* Quotient q and remainder r of a by a small natural number d.
BigDivSmall(a, d) == BigDivStep(a, d, 0, <<>>)

RECURSIVE BigCmpEq(_, _)
BigCmpEq(a, b) ==
    IF a = <<>> THEN 0
    ELSE IF a[1] < b[1] THEN -1
    ELSE IF a[1] > b[1] THEN 1
    ELSE BigCmpEq(Tail(a), Tail(b))

\* -1, 0 or 1 as a < b, a = b or a > b.
BigCmp(a, b) ==
    LET k == Max2(Len(a), Len(b)) IN BigCmpEq(BigPad(a, k), BigPad(b, k))

RECURSIVE BigSubBorrow(_, _, _)
BigSubBorrow(a, b, borrow) ==
    IF a = <<>> THEN <<>>
    ELSE LET v == Last(a) - Last(b) - borrow
         IN  IF v < 0
             THEN Append(BigSubBorrow(Front(a), Front(b), 1), v + LimbBase)
             ELSE Append(BigSubBorrow(Front(a), Front(b), 0), v)

\* a - b for a >= b.
BigSub(a, b) ==
    LET k == Max2(Len(a), Len(b))
    IN  BigSubBorrow(BigPad(a, k), BigPad(b, k), 0)

RECURSIVE BigAddCarry(_, _)
BigAddCarry(a, carry) ==
    IF a = <<>> THEN BigFromInt(carry)
    ELSE LET v == Last(a) + carry
         IN  Append(BigAddCarry(Front(a), v \div LimbBase), v % LimbBase)

\* a + n for a small natural number n.
BigAddSmall(a, n) == BigAddCarry(a, n)

\* a * 2^k.
BigShl(a, k) ==
    BigMulSmall(a, Pow2(k % LimbBits)) \o Zeros(k \div LimbBits)

\* floor(a / 2^k), and whether a bit that is 1 was dropped.
BigShr(a, k) ==
    LET n == k \div LimbBits
        keep == IF n >= Len(a) THEN <<>> ELSE SubSeq(a, 1, Len(a) - n)
        gone == IF n >= Len(a) THEN a ELSE SubSeq(a, Len(a) - n + 1, Len(a))
        d == BigDivSmall(keep, Pow2(k % LimbBits))
    IN  [q |-> d.q,
         sticky |-> d.r # 0 \/ \E i \in 1..Len(gone) : gone[i] # 0]

\* The number of bits of a.
BigBitLen(a) ==
    LET s == BigStrip(a)
    IN  IF s = <<>> THEN 0 ELSE LimbBits * (Len(s) - 1) + BitLen(s[1])

FZero == [e |-> 0, m |-> Zeros(5)]

FIsZero(x) == x.m = Zeros(5)

\* The float of the 53 or 54 bit number mm at exponent e (54 bits: a carry
\* out of the rounding, mm = 2^53).
FPack(mm, e) ==
    IF BigBitLen(mm) = 54 THEN [e |-> e + 1, m |-> <<1, 0, 0, 0, 0>>]
    ELSE [e |-> e, m |-> mm]

\* b.q the leading 53 bits, b.r the next bit, sticky whether any later bit
\* is 1: rounded to nearest, ties to even.
FRoundHalf(b, sticky, e) ==
    FPack(BigStrip(IF b.r = 1 /\ (sticky \/ Last(b.q) % 2 = 1)
                   THEN BigAddSmall(b.q, 1) ELSE b.q), e)

FRoundBits(n, L, e2, sticky) ==
    IF L = 0 THEN FZero
    ELSE IF L <= 53
    THEN [e |-> e2 + L - 1, m |-> BigStrip(BigShl(n, 53 - L))]
    ELSE FRoundHalf(BigDivSmall(BigShr(n, L - 54).q, 2),
                    sticky \/ BigShr(n, L - 54).sticky, e2 + L - 1)

FRoundStripped(n, e2, sticky) == FRoundBits(n, BigBitLen(n), e2, sticky)

\* The float nearest to N * 2^e2 + t, ties to even, where t = 0 unless
\* sticky, and then 0 < t < 2^e2 (N must have at least 55 bits then).
FRound(N, e2, sticky) == FRoundStripped(BigStrip(N), e2, sticky)

\* a / b for two ints a >= 0 and b > 0 (Python's true division).
FDivInt(a, b) ==
    LET d == BigDivSmall(BigFromInt(a) \o Zeros(6), b)
    IN  FRound(d.q, -(6 * LimbBits), d.r # 0)

\* float(n) for an int n >= 0.
FFromInt(n) == FRound(BigFromInt(n), 0, FALSE)

\* n * x for an int n >= 0 and a float x.
FMulInt(n, x) == FRound(BigMulSmall(x.m, n), x.e - 52, FALSE)

RECURSIVE FixDigit(_, _, _)
\* The largest q' <= q with q' * M <= r.
FixDigit(r, M, q) ==
    IF BigCmp(BigMulSmall(M, q), r) > 0 THEN FixDigit(r, M, q - 1) ELSE q

\* floor(r / M) for a 53 bit number M and r < M * LimbBase: the quotient of
\* the leading limbs is at most 2 too large.
DivDigit(r, M) ==
    LET rr == BigPad(BigStrip(r), 6)
        rtop == (rr[1] * LimbBase + rr[2]) * LimbBase + rr[3]
        mtop == M[1] * LimbBase + M[2]
    IN  FixDigit(rr, M, Min2(LimbBase - 1, rtop \div mtop))

RECURSIVE BigDivStepBig(_, _, _, _)
\* Schoolbook long division of the limbs a by the 53 bit number M: r the
\* remainder and q the quotient of the limbs consumed so far.
BigDivStepBig(a, M, r, q) ==
    IF a = <<>> THEN [q |-> q, r |-> r]
    ELSE LET r1 == Append(r, a[1])
             d == DivDigit(r1, M)
             r2 == BigStrip(BigSub(r1, BigMulSmall(M, d)))
         IN  BigDivStepBig(Tail(a), M, r2, Append(q, d))

\* n / x for an int n >= 0 and a float x > 0: n * 2^(9 limbs) is divided by
\* the 53 bits of x, which leaves at least 55 bits of quotient to round.
FIntDiv(n, x) ==
    IF n = 0 THEN FZero
    ELSE LET d == BigDivStepBig(BigFromInt(n) \o Zeros(9), x.m, <<>>, <<>>)
         IN  FRound(d.q, -(9 * LimbBits) + 52 - x.e, BigStrip(d.r) # <<>>)

\* x < y.
FLess(x, y) ==
    IF FIsZero(y) THEN FALSE
    ELSE IF FIsZero(x) THEN TRUE
    ELSE x.e < y.e \/ (x.e = y.e /\ BigCmp(x.m, y.m) < 0)

FMin(x, y) == IF FLess(y, x) THEN y ELSE x

\* abs(x - y).
FAbsDiff(x, y) ==
    LET hi == IF FLess(x, y) THEN y ELSE x
        lo == IF FLess(x, y) THEN x ELSE y
    IN  IF FIsZero(lo) THEN hi
        ELSE FRound(BigSub(BigShl(hi.m, hi.e - lo.e), lo.m), lo.e - 52, FALSE)

RECURSIVE BigAddLimbs(_, _, _)
BigAddLimbs(a, b, carry) ==
    IF a = <<>> THEN BigFromInt(carry)
    ELSE Append(BigAddLimbs(Front(a), Front(b),
                            (Last(a) + Last(b) + carry) \div LimbBase),
                (Last(a) + Last(b) + carry) % LimbBase)

\* a + b.
BigAdd(a, b) ==
    BigAddLimbs(BigPad(a, Max2(Len(a), Len(b))),
                BigPad(b, Max2(Len(a), Len(b))), 0)

\* hi + lo for floats hi >= lo > 0 whose exponents differ by less than 64.
FAddOrdered(hi, lo) ==
    FRound(BigAdd(BigShl(hi.m, hi.e - lo.e), lo.m), lo.e - 52, FALSE)

\* x + y.
FAdd(x, y) ==
    IF FIsZero(x) THEN y
    ELSE IF FIsZero(y) THEN x
    ELSE IF FLess(x, y) THEN FAddOrdered(y, x) ELSE FAddOrdered(x, y)

\* The float32 of the 24 or 25 bit number m24 at exponent e, as a float.
F32Pack(m24, e) ==
    IF BigBitLen(m24) = 25 THEN [e |-> e + 1, m |-> <<1, 0, 0, 0, 0>>]
    ELSE [e |-> e, m |-> BigStrip(BigShl(m24, 29))]

F32Half(b, sticky, e) ==
    F32Pack(BigStrip(IF b.r = 1 /\ (sticky \/ Last(b.q) % 2 = 1)
                     THEN BigAddSmall(b.q, 1) ELSE b.q), e)

F32Shift(a, e) == F32Half(BigDivSmall(a.q, 2), a.sticky, e)

\* np.float32(x): x rounded to 24 bits, ties to even.  The float32 sum,
\* difference, product and quotient of two float32 is the rounding of the
\* float one, since 53 >= 2 * 24 + 2.
F32(x) == IF FIsZero(x) THEN x ELSE F32Shift(BigShr(x.m, 28), x.e)

\* int(x) for a float x >= 0.
FInt(x) ==
    IF FIsZero(x) \/ x.e < 0 THEN 0
    ELSE IF x.e >= 52 THEN BigToInt(BigShl(x.m, x.e - 52))
    ELSE BigToInt(BigShr(x.m, 52 - x.e).q)

\* ------------------------------------------------------------------------
\* geometry.py
\* ------------------------------------------------------------------------

\* np.argmin over a sequence: the first index that holds the minimum.
argmin(f) ==
    CHOOSE i \in 1..Len(f) :
        /\ \A j \in 1..Len(f) : f[i] <= f[j]
        /\ \A j \in 1..(i - 1) : f[j] > f[i]

\* np.argmax over a sequence: the first index that holds the maximum.
argmax(f) ==
    CHOOSE i \in 1..Len(f) :
        /\ \A j \in 1..Len(f) : f[i] >= f[j]
        /\ \A j \in 1..(i - 1) : f[j] < f[i]

\* A plausible slip: the difference taken as x - y instead of y - x, which
\* exchanges the top-right and the bottom-left corner.
order_points_xy(points) ==
    LET s == [i \in 1..Len(points) |-> points[i][1] + points[i][2]]
        diff == [i \in 1..Len(points) |-> points[i][1] - points[i][2]]
    IN  << points[argmin(s)], points[argmin(diff)],
           points[argmax(s)], points[argmax(diff)] >>

\* order_points: [top-left, top-right, bottom-right, bottom-left].
\* A point is <<x, y>>; s is points.sum(axis=1), diff is np.diff(points,
\* axis=1), that is y - x.
order_points(points) ==
    LET s == [i \in 1..Len(points) |-> points[i][1] + points[i][2]]
        diff == [i \in 1..Len(points) |-> points[i][2] - points[i][1]]
    IN  << points[argmin(s)], points[argmin(diff)],
           points[argmax(s)], points[argmax(diff)] >>

\* The squared euclidean distance of two points.
Dist2(p, q) == (p[1] - q[1]) * (p[1] - q[1]) + (p[2] - q[2]) * (p[2] - q[2])

\* calculate_perspective_size: orders the points it is given once more and
\* returns <<max_width, max_height>>.
calculate_perspective_size(points) ==
    LET rect == order_points(points)
        tl == rect[1]
        tr == rect[2]
        br == rect[3]
        bl == rect[4]
        max_width == Isqrt(Max2(Dist2(br, bl), Dist2(tr, tl)))
        max_height == Isqrt(Max2(Dist2(tr, br), Dist2(tl, bl)))
    IN  << max_width, max_height >>

\* ------------------------------------------------------------------------
\* Inputs: quads on a bounded grid
\* ------------------------------------------------------------------------

\* The largest coordinate of a grid point.
MaxCoord == 2

GridPoints == (0..MaxCoord) \X (0..MaxCoord)

\* Every sequence of 4 grid points, in every input order.
QuadInputs == [1..4 -> GridPoints]

\* Twice the signed area of the triangle p, q, r.
Cross(p, q, r) ==
    (q[1] - p[1]) * (r[2] - p[2]) - (q[2] - p[2]) * (r[1] - p[1])

\* P lists, in some order, the corners of a convex quadrilateral with
\* positive area and no three corners on a line: every point lies strictly
\* outside the triangle of the other three.
Perms4 == {f \in [1..4 -> 1..4] : \A i, j \in 1..4 : i # j => f[i] # f[j]}

ConvexInOrder(a, b, c, d) ==
    \/ Cross(a, b, c) > 0 /\ Cross(b, c, d) > 0 /\ Cross(c, d, a) > 0
       /\ Cross(d, a, b) > 0
    \/ Cross(a, b, c) < 0 /\ Cross(b, c, d) < 0 /\ Cross(c, d, a) < 0
       /\ Cross(d, a, b) < 0

ValidQuad(P) ==
    \E f \in Perms4 : ConvexInOrder(P[f[1]], P[f[2]], P[f[3]], P[f[4]])

\* P lists the four corners of an axis-aligned rectangle with positive width
\* and height, in some order.
IsRectangle(P) ==
    \E x1, x2, y1, y2 \in 0..MaxCoord :
        /\ x1 < x2 /\ y1 < y2
        /\ {P[i] : i \in 1..4} = {<<x1, y1>>, <<x2, y1>>, <<x2, y2>>, <<x1, y2>>}
        /\ \A i, j \in 1..4 : i # j => P[i] # P[j]

\* ------------------------------------------------------------------------
\* SpecOrder: order_points and calculate_perspective_size on every quad
\* ------------------------------------------------------------------------

InitOrder ==
    /\ op = "call"
    /\ arg \in [fn : {"order_points"}, points : QuadInputs]
    /\ res = None

\* ordered = order_points(points), as every caller in perspective.py and
\* screen_editor.py runs it first.
OrderPoints ==
    /\ op = "call"
    /\ arg.fn = "order_points"
    /\ op' = "order_points"
    /\ res' = [ordered |-> order_points(arg.points)]
    /\ UNCHANGED arg

\* width, height = calculate_perspective_size(ordered): the callers hand it
\* the ordered points; rect is its own ordering of them.
CalculatePerspectiveSize ==
    /\ op = "order_points"
    /\ op' = "calculate_perspective_size"
    /\ res' = [ordered |-> res.ordered,
               rect |-> order_points(res.ordered),
               size |-> calculate_perspective_size(res.ordered)]
    /\ UNCHANGED arg

NextOrder == OrderPoints \/ CalculatePerspectiveSize

SpecOrder == InitOrder /\ [][NextOrder]_vars

\* ------------------------------------------------------------------------
\* Images, numpy slices and cv2.resize
\*
\* The framing operations decide sizes and windows; the samples play no part
\* in them.  An image is its shape [w, h] with a kind: "input" is the very
\* buffer the caller passed, "view" a slice of it with its top-left corner
\* at column x, row y of the input, "resized" a buffer made by cv2.resize
\* and "canvas" one made by np.full.
\* ------------------------------------------------------------------------

Image(w, h) == [kind |-> "input", w |-> w, h |-> h, x |-> 0, y |-> 0]

\* The index a slice bound i denotes on an axis of length n.
SliceIndex(i, n) == IF i < 0 THEN Max2(0, i + n) ELSE Min2(i, n)

\* The number of elements of a[start:stop] on an axis of length n.
SliceLen(start, stop, n) ==
    Max2(0, SliceIndex(stop, n) - SliceIndex(start, n))

\* image[ya:yb, xa:xb]
Slice(image, ya, yb, xa, xb) ==
    [kind |-> IF image.kind = "input" THEN "view" ELSE image.kind,
     w |-> SliceLen(xa, xb, image.w),
     h |-> SliceLen(ya, yb, image.h),
     x |-> image.x + SliceIndex(xa, image.w),
     y |-> image.y + SliceIndex(ya, image.h)]

\* cv2.resize raises on an empty source and on a dsize that is not positive
\* on both axes.
ResizeRaises(image, new_w, new_h) ==
    image.w <= 0 \/ image.h <= 0 \/ new_w <= 0 \/ new_h <= 0

Resized(new_w, new_h) ==
    [kind |-> "resized", w |-> new_w, h |-> new_h, x |-> 0, y |-> 0]

\* ------------------------------------------------------------------------
\* cropper.py
\* ------------------------------------------------------------------------

\* ImageCropper.crop_to_bbox: x and y are reassigned to their clamped values
\* before x2 and y2 are computed from them.  No statement of the body raises.
crop_to_bbox(image, x, y, width, height) ==
    LET h == image.h
        w == image.w
        x1 == Max2(0, Min2(x, w))
        y1 == Max2(0, Min2(y, h))
        x2 == Max2(0, Min2(x1 + width, w))
        y2 == Max2(0, Min2(y1 + height, h))
    IN  Slice(image, y1, y2, x1, x2)

\* The literal 0.01.
Tolerance == FDivInt(1, 100)

\* image[:, x_start:x_start + new_width], centred or from the origin.
crop_columns(image, new_width, from_center) ==
    Slice(image, 0, image.h,
          IF from_center THEN FloorDiv2(image.w - new_width) ELSE 0,
          (IF from_center THEN FloorDiv2(image.w - new_width) ELSE 0)
              + new_width)

\* image[y_start:y_start + new_height, :], centred or from the origin.
crop_rows(image, new_height, from_center) ==
    Slice(image,
          IF from_center THEN FloorDiv2(image.h - new_height) ELSE 0,
          (IF from_center THEN FloorDiv2(image.h - new_height) ELSE 0)
              + new_height,
          0, image.w)

\* A plausible slip: the branches of crop_to_aspect_ratio exchanged.
crop_to_ratio_swapped(image, current_ratio, aspect_ratio, from_center) ==
    IF FLess(FAbsDiff(current_ratio, aspect_ratio), Tolerance) THEN image
    ELSE IF FLess(current_ratio, aspect_ratio)
    THEN crop_columns(image, FInt(FMulInt(image.h, aspect_ratio)),
                      from_center)
    ELSE IF FIsZero(aspect_ratio) THEN image
    ELSE crop_rows(image, FInt(FIntDiv(image.w, aspect_ratio)), from_center)

\* The body of crop_to_aspect_ratio once current_ratio = w / h is known.
\* w / aspect_ratio raises for aspect_ratio = 0.
crop_to_ratio(image, current_ratio, aspect_ratio, from_center) ==
    IF FLess(FAbsDiff(current_ratio, aspect_ratio), Tolerance) THEN image
    ELSE IF FLess(aspect_ratio, current_ratio)
    THEN crop_columns(image, FInt(FMulInt(image.h, aspect_ratio)),
                      from_center)
    ELSE IF FIsZero(aspect_ratio) THEN image
    ELSE crop_rows(image, FInt(FIntDiv(image.w, aspect_ratio)), from_center)

\* ImageCropper.crop_to_aspect_ratio for aspect_ratio >= 0.  w / h raises
\* for h = 0; the except branch returns the input.
crop_to_aspect_ratio(image, aspect_ratio, from_center) ==
    IF image.h = 0 THEN image
    ELSE crop_to_ratio(image, FDivInt(image.w, image.h), aspect_ratio,
                       from_center)

\* cv2.copyMakeBorder(image, top, bottom, left, right, ...) inside a try
\* whose except branch returns image: it raises for a negative side; x, y
\* is the place of the input inside the padded image.
pad_border(image, top_bottom, left_right) ==
    IF top_bottom[1] < 0 \/ top_bottom[2] < 0
       \/ left_right[1] < 0 \/ left_right[2] < 0
    THEN image
    ELSE [kind |-> "padded",
          w |-> image.w + left_right[1] + left_right[2],
          h |-> image.h + top_bottom[1] + top_bottom[2],
          x |-> left_right[1], y |-> top_bottom[1]]

\* A plausible slip: the extra pixel on the leading side.
pad_sides_leading(pad_total) ==
    << pad_total - FloorDiv2(pad_total), FloorDiv2(pad_total) >>

\* pad_left = pad_total // 2; pad_right = pad_total - pad_left (and the
\* same for top and bottom).
pad_sides(pad_total) ==
    << FloorDiv2(pad_total), pad_total - FloorDiv2(pad_total) >>

\* The body of pad_to_aspect_ratio once current_ratio = w / h is known.
\* w / aspect_ratio raises for aspect_ratio = 0.
pad_to_ratio(image, current_ratio, aspect_ratio) ==
    IF FLess(FAbsDiff(current_ratio, aspect_ratio), Tolerance) THEN image
    ELSE IF FLess(current_ratio, aspect_ratio)
    THEN pad_border(image, << 0, 0 >>,
             pad_sides(FInt(FMulInt(image.h, aspect_ratio)) - image.w))
    ELSE IF FIsZero(aspect_ratio) THEN image
    ELSE pad_border(image,
             pad_sides(FInt(FIntDiv(image.w, aspect_ratio)) - image.h),
             << 0, 0 >>)

\* ImageCropper.pad_to_aspect_ratio for aspect_ratio >= 0.  w / h raises
\* for h = 0; the except branch returns the input.
pad_to_aspect_ratio(image, aspect_ratio) ==
    IF image.h = 0 THEN image
    ELSE pad_to_ratio(image, FDivInt(image.w, image.h), aspect_ratio)

\* ------------------------------------------------------------------------
\* resizer.py
\* ------------------------------------------------------------------------

\* <<int(w * scale), int(h * scale)>>
scaled_size(w, h, scale) ==
    << FInt(FMulInt(w, scale)), FInt(FMulInt(h, scale)) >>

\* The scale ImageResizer.resize keeps the proportions with, for an image
\* with w, h > 0.  The keyword arguments width and height (>= 0) are the
\* fields of size; an absent field is an argument left at None, and at
\* least one is present.
resize_scale(w, h, size) ==
    IF "width" \in DOMAIN size /\ "height" \in DOMAIN size
    THEN FMin(FDivInt(size.width, w), FDivInt(size.height, h))
    ELSE IF "width" \in DOMAIN size THEN FDivInt(size.width, w)
    ELSE FDivInt(size.height, h)

\* The size ImageResizer.resize asks cv2.resize for, <<new_w, new_h>>: the
\* given side as it is when the other one is None.
resize_size(w, h, size, maintain_aspect, scaled) ==
    IF maintain_aspect
    THEN << IF "height" \in DOMAIN size THEN scaled[1] ELSE size.width,
            IF "width" \in DOMAIN size THEN scaled[2] ELSE size.height >>
    ELSE << IF "width" \in DOMAIN size /\ size.width # 0
            THEN size.width ELSE w,
            IF "height" \in DOMAIN size /\ size.height # 0
            THEN size.height ELSE h >>

\* cv2.resize(image, new) inside a try whose except branch returns image.
resize_to(image, new) ==
    IF ResizeRaises(image, new[1], new[2]) THEN image
    ELSE Resized(new[1], new[2])

\* ImageResizer.resize: the input when no size is given, and (the except
\* branch) when a division by zero or cv2.resize raises.
resize(image, size, maintain_aspect) ==
    IF DOMAIN size = {} THEN image
    ELSE IF maintain_aspect /\ (image.w = 0 \/ image.h = 0) THEN image
    ELSE resize_to(image,
             resize_size(image.w, image.h, size, maintain_aspect,
                 IF maintain_aspect
                 THEN scaled_size(image.w, image.h,
                                  resize_scale(image.w, image.h, size))
                 ELSE << >>))

\* canvas[ya:yb, xa:xb] = source raises unless the shape of the source can
\* be broadcast to the shape of the slice: per axis equal, or 1 in the source.
AssignRaises(canvas, ya, yb, xa, xb, source) ==
    ~ /\ (source.h = SliceLen(ya, yb, canvas.h) \/ source.h = 1)
      /\ (source.w = SliceLen(xa, xb, canvas.w) \/ source.w = 1)

Canvas(w, h) == [kind |-> "canvas", w |-> w, h |-> h, x |-> 0, y |-> 0]

\* resize_to_fit from the point where resize has returned: the resized
\* image when it has the target size, else the canvas it is centred on, and
\* the input when the assignment raises.
fit_canvas(image, resized, target_width, target_height) ==
    IF resized.w = target_width /\ resized.h = target_height THEN resized
    ELSE IF AssignRaises(Canvas(target_width, target_height),
                FloorDiv2(target_height - resized.h),
                FloorDiv2(target_height - resized.h) + resized.h,
                FloorDiv2(target_width - resized.w),
                FloorDiv2(target_width - resized.w) + resized.w,
                resized)
    THEN image
    ELSE Canvas(target_width, target_height)

\* ImageResizer.resize_to_fit for target_width, target_height >= 0.
resize_to_fit(image, target_width, target_height) ==
    fit_canvas(image,
               resize(image, [width |-> target_width,
                              height |-> target_height], TRUE),
               target_width, target_height)

\* The scale of resize_to_fill for w, h, target_height > 0.
fill_scale(w, h, target_width, target_height) ==
    IF FLess(FDivInt(target_width, target_height), FDivInt(w, h))
    THEN FDivInt(target_height, h)
    ELSE FDivInt(target_width, w)

\* The size resize_to_fill asks cv2.resize for, <<new_w, new_h>>.
fill_size(w, h, target_width, target_height) ==
    scaled_size(w, h, fill_scale(w, h, target_width, target_height))

\* resized[:, x_start:x_start + target_width] when it is wider.
fill_crop_columns(resized, target_width) ==
    IF resized.w > target_width
    THEN Slice(resized, 0, resized.h,
               FloorDiv2(resized.w - target_width),
               FloorDiv2(resized.w - target_width) + target_width)
    ELSE resized

\* resized[y_start:y_start + target_height, :] when it is higher.
fill_crop_rows(resized, target_height) ==
    IF resized.h > target_height
    THEN Slice(resized,
               FloorDiv2(resized.h - target_height),
               FloorDiv2(resized.h - target_height) + target_height,
               0, resized.w)
    ELSE resized

\* resize_to_fill from the point where the size new is known.
fill_resized(image, new, target_width, target_height) ==
    IF ResizeRaises(image, new[1], new[2]) THEN image
    ELSE fill_crop_rows(
             fill_crop_columns(Resized(new[1], new[2]), target_width),
             target_height)

\* ImageResizer.resize_to_fill for target_width, target_height >= 0.
\* target_width / target_height and w / h raise on a zero divisor.
resize_to_fill(image, target_width, target_height) ==
    IF target_height = 0 \/ image.h = 0 \/ image.w = 0 THEN image
    ELSE fill_resized(image,
             fill_size(image.w, image.h, target_width, target_height),
             target_width, target_height)

\* ------------------------------------------------------------------------
\* Calls of the cropper
\* ------------------------------------------------------------------------

MaxCropDim == 5
MaxRatioTerm == 4
RatioFine == 128
MaxBoxDim == 2
MaxBoxOff == 2

CropImages == {Image(w, h) : w \in 1..MaxCropDim, h \in 1..MaxCropDim}

\* The ratios n / d of small terms, and their neighbours at a distance of
\* 1 / (d * RatioFine), which is below the tolerance.
RatioInputs ==
    {FDivInt(n * RatioFine + k, d * RatioFine) :
        n \in 1..MaxRatioTerm, d \in 1..MaxRatioTerm, k \in -1..1}

BoxImages == {Image(w, h) : w \in 1..MaxBoxDim, h \in 1..MaxBoxDim}

BoxOffsets == (-MaxBoxOff)..(MaxBoxDim + 1)

BoxSizes == (-1)..(MaxBoxDim + MaxBoxOff)

InitCrop ==
    /\ op = "call"
    /\ arg \in [fn : {"crop_to_aspect_ratio"}, image : CropImages,
                aspect_ratio : RatioInputs, from_center : BOOLEAN]
          \cup [fn : {"crop_to_bbox"}, image : BoxImages,
                x : BoxOffsets, y : BoxOffsets,
                width : BoxSizes, height : BoxSizes]
          \cup [fn : {"pad_to_aspect_ratio"}, image : CropImages,
                aspect_ratio : RatioInputs]
    /\ res = None

CropToAspectRatio ==
    /\ op = "call"
    /\ arg.fn = "crop_to_aspect_ratio"
    /\ res' = crop_to_aspect_ratio(arg.image, arg.aspect_ratio,
                                   arg.from_center)
    /\ op' = "crop_to_aspect_ratio"
    /\ UNCHANGED arg

CropToBbox ==
    /\ op = "call"
    /\ arg.fn = "crop_to_bbox"
    /\ res' = crop_to_bbox(arg.image, arg.x, arg.y, arg.width, arg.height)
    /\ op' = "crop_to_bbox"
    /\ UNCHANGED arg

PadToAspectRatio ==
    /\ op = "call"
    /\ arg.fn = "pad_to_aspect_ratio"
    /\ res' = pad_to_aspect_ratio(arg.image, arg.aspect_ratio)
    /\ op' = "pad_to_aspect_ratio"
    /\ UNCHANGED arg

NextCrop == CropToAspectRatio \/ CropToBbox \/ PadToAspectRatio

SpecCrop == InitCrop /\ [][NextCrop]_vars

\* ------------------------------------------------------------------------
\* Calls of the resizer
\* ------------------------------------------------------------------------

MaxImgW == 47
MaxImgH == 16
MaxTargetW == 3
MaxTargetH == 2

ResizeImages == {Image(w, h) : w \in 1..MaxImgW, h \in 1..MaxImgH}
               \cup {Image(h, w) : w \in 1..MaxImgW, h \in 1..MaxTargetH}

InitResize ==
    /\ op = "call"
    /\ arg \in [fn : {"resize_to_fit", "resize_to_fill"},
                image : ResizeImages,
                target_width : 1..MaxTargetW,
                target_height : 1..MaxTargetH]
    /\ res = None

ResizeToFit ==
    /\ op = "call"
    /\ arg.fn = "resize_to_fit"
    /\ res' = resize_to_fit(arg.image, arg.target_width, arg.target_height)
    /\ op' = "resize_to_fit"
    /\ UNCHANGED arg

ResizeToFill ==
    /\ op = "call"
    /\ arg.fn = "resize_to_fill"
    /\ res' = resize_to_fill(arg.image, arg.target_width, arg.target_height)
    /\ op' = "resize_to_fill"
    /\ UNCHANGED arg

NextResize == ResizeToFit \/ ResizeToFill

SpecResize == InitResize /\ [][NextResize]_vars

\* ------------------------------------------------------------------------
\* perspective.py
\*
\* cv2.getPerspectiveTransform solves for its matrix without checking that
\* the system is regular and cv2.warpPerspective inverts what it is given
\* without checking either, so neither raises on a degenerate quad.
\* ------------------------------------------------------------------------

\* return None, where an image is returned otherwise.
NoImage == [kind |-> "None", w |-> 0, h |-> 0, x |-> 0, y |-> 0]

Warped(w, h) == [kind |-> "warped", w |-> w, h |-> h, x |-> 0, y |-> 0]

\* What a function returns that ends in cv2.warpPerspective(image, matrix,
\* dsize), dsize = (width, height), inside a try whose except branch returns
\* None.  An empty image raises; for an empty size (a side <= 0) the
\* destination is created with the size of the source.
warpPerspective(image, dsize) ==
    IF image.w <= 0 \/ image.h <= 0 THEN {NoImage}
    ELSE IF dsize[1] <= 0 \/ dsize[2] <= 0 THEN {Warped(image.w, image.h)}
    ELSE {Warped(dsize[1], dsize[2])}

\* polygon.to_numpy()[:4]
FirstFour(points) == SubSeq(points, 1, Min2(4, Len(points)))

\* PerspectiveTransformer.extract_screen_region: the set of values it can
\* return.
extract_screen_region(image, polygon) ==
    IF Len(polygon) < 4 THEN {NoImage}
    ELSE warpPerspective(image,
             calculate_perspective_size(order_points(FirstFour(polygon))))

\* A plausible slip: the two branches of the ratio constraint exchanged.
constrain_size_swapped(width, height, target_aspect_ratio) ==
    IF FLess(FDivInt(width, height), target_aspect_ratio)
    THEN << FInt(FMulInt(height, target_aspect_ratio)), height >>
    ELSE << width, FInt(FIntDiv(width, target_aspect_ratio)) >>

\* Lines 187-192 of correct_perspective_distortion for height # 0, and
\* target_aspect_ratio # 0 when width / height <= target_aspect_ratio.
constrain_size(width, height, target_aspect_ratio) ==
    IF FLess(target_aspect_ratio, FDivInt(width, height))
    THEN << FInt(FMulInt(height, target_aspect_ratio)), height >>
    ELSE << width, FInt(FIntDiv(width, target_aspect_ratio)) >>

\* width / height raises for height = 0 and width / target_aspect_ratio for
\* target_aspect_ratio = 0.
ConstrainRaises(width, height, target_aspect_ratio) ==
    \/ height = 0
    \/ /\ FIsZero(target_aspect_ratio)
       /\ ~FLess(target_aspect_ratio, FDivInt(width, height))

\* correct_perspective_distortion once the natural size is known.  The
\* keyword argument target_aspect_ratio is the field of that name of opts;
\* without the field the argument is left at None.
correct_to_size(image, size, opts) ==
    IF "target_aspect_ratio" \notin DOMAIN opts
    THEN warpPerspective(image, size)
    ELSE IF ConstrainRaises(size[1], size[2], opts.target_aspect_ratio)
    THEN {NoImage}
    ELSE warpPerspective(image,
             constrain_size(size[1], size[2], opts.target_aspect_ratio))

\* PerspectiveTransformer.correct_perspective_distortion: the set of values
\* it can return.
correct_perspective_distortion(image, polygon, opts) ==
    IF Len(polygon) < 4 THEN {NoImage}
    ELSE correct_to_size(image,
             calculate_perspective_size(order_points(FirstFour(polygon))),
             opts)

\* No three of the points a[i], a[j], a[k] lie on a line.
GeneralPosition(a) ==
    \A i, j, k \in 1..Len(a) :
        (i < j /\ j < k) => Cross(a[i], a[j], a[k]) # 0

\* cv2.findHomography(src, dst, cv2.RANSAC): it raises unless src and dst
\* hold the same number of points, at least 4; it returns the matrix None
\* when it finds no model, which can only be when the points are degenerate.
findHomography(src_points, dst_points) ==
    IF Len(src_points) # Len(dst_points) \/ Len(src_points) < 4
    THEN {"raise"}
    ELSE IF GeneralPosition(src_points) /\ GeneralPosition(dst_points)
    THEN {"matrix"}
    ELSE {"matrix", "None"}

\* apply_homography past its guard: what it returns (out) and the cv2
\* functions it has called (calls).
estimate_and_warp(image, src_points, dst_points, output_shape) ==
    {[out |-> NoImage, calls |-> << "findHomography" >>] :
        m \in findHomography(src_points, dst_points) \ {"matrix"}}
    \cup
    {[out |-> o, calls |-> << "findHomography", "warpPerspective" >>] :
        o \in IF "matrix" \in findHomography(src_points, dst_points)
              THEN warpPerspective(image,
                       << output_shape[2], output_shape[1] >>)
              ELSE {}}

\* A plausible slip: the guard of apply_homography with "and" for "or".
apply_homography_and(image, src_points, dst_points, output_shape) ==
    IF Len(src_points) # 4 /\ Len(dst_points) # 4
    THEN {[out |-> NoImage, calls |-> << >>]}
    ELSE estimate_and_warp(image, src_points, dst_points, output_shape)

\* PerspectiveTransformer.apply_homography: the set of outcomes it can have.
apply_homography(image, src_points, dst_points, output_shape) ==
    IF Len(src_points) # 4 \/ Len(dst_points) # 4
    THEN {[out |-> NoImage, calls |-> << >>]}
    ELSE estimate_and_warp(image, src_points, dst_points, output_shape)

\* np.zeros((*canvas_shape, 3), dtype=np.uint8), canvas_shape being
\* (height, width).
ZeroCanvas(canvas_shape) ==
    [kind |-> "zeros", w |-> canvas_shape[2], h |-> canvas_shape[1],
     x |-> 0, y |-> 0]

\* PerspectiveTransformer.warp_image_to_polygon: the set of values it can
\* return; the zero canvas for a short polygon and when cv2.warpPerspective
\* raises.
warp_image_to_polygon(image, polygon, canvas_shape) ==
    IF Len(polygon) < 4 THEN {ZeroCanvas(canvas_shape)}
    ELSE {IF o = NoImage THEN ZeroCanvas(canvas_shape) ELSE o :
             o \in warpPerspective(image,
                       << canvas_shape[2], canvas_shape[1] >>)}

\* ------------------------------------------------------------------------
\* Calls of the perspective transformer
\* ------------------------------------------------------------------------

PolyStep == 3
MaxPoints == 5

\* The image the screens are taken from.
SourceImage == Image(4, 3)

\* The polygon of test_correct_perspective_with_aspect_ratio.
ExampleQuad == << <<150, 100>>, <<450, 100>>, <<500, 400>>, <<100, 400>> >>

\* The corners and the edge midpoints of a square of side 2 * PolyStep: the
\* corners of the square and of the diamond inscribed in it.
PolyPoints ==
    {<< PolyStep * x, PolyStep * y >> : x, y \in 0..2} \ {<< PolyStep, PolyStep >>}

\* Every polygon of up to 4 of these points in every order, some quads with
\* further points after them, and the example.
Polygons ==
    UNION {[1..n -> PolyPoints] : n \in 0..4}
    \cup {q \o [i \in 1..n |-> << 0, 0 >>] :
             q \in [1..4 -> {<< 0, PolyStep >>, << PolyStep, 0 >>}],
             n \in 1..(MaxPoints - 4)}
    \cup {ExampleQuad}

\* target_aspect_ratio left at None, or one of 16:9, 4:3 and 9:16.
RatioOptions ==
    {<< >>} \cup {[target_aspect_ratio |-> FDivInt(r[1], r[2])] :
                     r \in {<< 16, 9 >>, << 4, 3 >>, << 9, 16 >>}}

InitPerspective ==
    /\ op = "call"
    /\ arg \in [fn : {"extract_screen_region"}, image : {SourceImage},
                polygon : Polygons]
          \cup [fn : {"correct_perspective_distortion"},
                image : {SourceImage}, polygon : Polygons,
                opts : RatioOptions]
    /\ res = None

ExtractScreenRegion ==
    /\ op = "call"
    /\ arg.fn = "extract_screen_region"
    /\ res' \in extract_screen_region(arg.image, arg.polygon)
    /\ op' = "extract_screen_region"
    /\ UNCHANGED arg

CorrectPerspectiveDistortion ==
    /\ op = "call"
    /\ arg.fn = "correct_perspective_distortion"
    /\ res' \in correct_perspective_distortion(arg.image, arg.polygon,
                                               arg.opts)
    /\ op' = "correct_perspective_distortion"
    /\ UNCHANGED arg

NextPerspective == ExtractScreenRegion \/ CorrectPerspectiveDistortion

SpecPerspective == InitPerspective /\ [][NextPerspective]_vars

\* Lists of n points, no three of them on a line (on a parabola) or all of
\* them on one line.
PointLists ==
    {[i \in 1..n |-> << i, i * i >>] : n \in 0..MaxPoints}
    \cup {[i \in 1..n |-> << i, 0 >>] : n \in 0..MaxPoints}

\* output_shape = (height, width)
OutputShapes == (0..2) \X (0..2)

\* The contents to warp: the source image, one pixel, and an empty array.
ContentImages == {SourceImage, Image(1, 1), Image(0, 0)}

InitHomography ==
    /\ op = "call"
    /\ arg \in [fn : {"apply_homography"}, image : ContentImages,
                src_points : PointLists, dst_points : PointLists,
                output_shape : OutputShapes]
          \cup [fn : {"warp_image_to_polygon"}, image : ContentImages,
                polygon : PointLists, canvas_shape : OutputShapes]
    /\ res = None

ApplyHomography ==
    /\ op = "call"
    /\ arg.fn = "apply_homography"
    /\ res' \in apply_homography(arg.image, arg.src_points, arg.dst_points,
                                 arg.output_shape)
    /\ op' = "apply_homography"
    /\ UNCHANGED arg

WarpImageToPolygon ==
    /\ op = "call"
    /\ arg.fn = "warp_image_to_polygon"
    /\ res' \in warp_image_to_polygon(arg.image, arg.polygon,
                                      arg.canvas_shape)
    /\ op' = "warp_image_to_polygon"
    /\ UNCHANGED arg

NextHomography == ApplyHomography \/ WarpImageToPolygon

SpecHomography == InitHomography /\ [][NextHomography]_vars

\* ------------------------------------------------------------------------
\* screen_editor.py
\*
\* Here the samples matter.  The three channels of a pixel are treated
\* alike, so a pixel is one sample 0..255; px[y][x] is the pixel of row y
\* and column x, both counted from 0.  The content is of one colour, which
\* cv2.resize keeps at every size.
\* ------------------------------------------------------------------------

\* mask > 127
mask_on_ge(v) == v >= 127

mask_on(v) == v > 127

SetMin(S) == CHOOSE m \in S : \A n \in S : m <= n

SetMax(S) == CHOOSE m \in S : \A n \in S : m >= n

\* y_indices, x_indices = np.where(mask > 127), as sets.
y_indices(mask) ==
    {y \in 0..(mask.h - 1) : \E x \in 0..(mask.w - 1) : mask_on(mask.px[y][x])}

x_indices(mask) ==
    {x \in 0..(mask.w - 1) : \E y \in 0..(mask.h - 1) : mask_on(mask.px[y][x])}

\* The bounding box of a mask that is on somewhere.
MaskBox(mask) ==
    [x_min |-> SetMin(x_indices(mask)), x_max |-> SetMax(x_indices(mask)),
     y_min |-> SetMin(y_indices(mask)), y_max |-> SetMax(y_indices(mask))]

\* The pixels a slice [y_min:y_max, x_min:x_max] holds.
InBox(box, y, x) ==
    /\ box.y_min <= y /\ y < box.y_max
    /\ box.x_min <= x /\ x < box.x_max

\* cv2.BORDER_REFLECT_101: the index the position p stands for on an axis
\* of length len.
RECURSIVE Reflect101(_, _)
Reflect101(p, len) ==
    IF len = 1 THEN 0
    ELSE IF p < 0 THEN Reflect101(-p, len)
    ELSE IF p >= len THEN Reflect101(2 * len - 2 - p, len)
    ELSE p

\* 16 times the kernel of cv2.GaussianBlur for ksize 5 and sigma 0.
GaussKernel == << 1, 4, 6, 4, 1 >>

\* 256 times the value of cv2.GaussianBlur(mask_region, (5, 5), 0) at row y,
\* column x of the mask, mask_region being the box.  Every intermediate is
\* a multiple of 1/256 below 256, which float32 holds exactly.
Blur256(mask, box, y, x) ==
    LET tap(i, j) ==
            GaussKernel[i] * GaussKernel[j]
            * mask.px[box.y_min
                      + Reflect101(y - box.y_min + i - 3,
                                   box.y_max - box.y_min)]
                     [box.x_min
                      + Reflect101(x - box.x_min + j - 3,
                                   box.x_max - box.x_min)]
        row(i) == tap(i, 1) + tap(i, 2) + tap(i, 3) + tap(i, 4) + tap(i, 5)
    IN  row(1) + row(2) + row(3) + row(4) + row(5)

\* The blend that leaves the region at full weight: screen * m + region.
BlendOver(screen, region, m) ==
    F32(FAdd(F32(FMulInt(screen, m)), FFromInt(region)))

\* screen * m + region * (1 - m) for one pixel, in float32, m being a value
\* of mask_blurred.
BlendValue(screen, region, m) ==
    F32(FAdd(F32(FMulInt(screen, m)),
             F32(FMulInt(region, F32(FAbsDiff(FFromInt(1), m))))))

\* x.astype(np.uint8) for x >= 0: the integer part, of which 8 bits are
\* kept.
astype_uint8(x) == FInt(x) % 256

\* (screen * m + region * (1 - m)).astype(np.uint8) for one pixel.
BlendWith(screen, region, m) == astype_uint8(BlendValue(screen, region, m))

\* The blended pixel for 256 times the blurred mask value: mask_blurred is
\* the blurred mask / 255.0 in float32.
BlendPixel(screen, region, blur256) ==
    BlendWith(screen, region, F32(FDivInt(blur256, 65280)))

\* replace_screen_with_image for a mask that is on somewhere, box being its
\* bounding box: the input when cv2.resize raises, else the copy with the
\* box blended or replaced where the mask is on.
replace_in_box(laptop_image, mask, screen_content, blend, box) ==
    IF ResizeRaises(screen_content, box.x_max - box.x_min,
                    box.y_max - box.y_min)
    THEN laptop_image
    ELSE [laptop_image EXCEPT
             !.kind = "copy",
             !.px = [y \in 0..(laptop_image.h - 1) |->
                       [x \in 0..(laptop_image.w - 1) |->
                          IF ~InBox(box, y, x) THEN laptop_image.px[y][x]
                          ELSE IF blend
                          THEN BlendPixel(screen_content.value,
                                          laptop_image.px[y][x],
                                          Blur256(mask, box, y, x))
                          ELSE IF mask_on(mask.px[y][x])
                          THEN screen_content.value
                          ELSE laptop_image.px[y][x]]]]

\* ScreenEditor.replace_screen_with_image for images and masks of one shape.
replace_screen_with_image(laptop_image, mask, screen_content, blend) ==
    IF y_indices(mask) = {} \/ x_indices(mask) = {} THEN laptop_image
    ELSE replace_in_box(laptop_image, mask, screen_content, blend,
                        MaskBox(mask))

\* The point p lies in the triangle a, b, c, its sides included; a triangle
\* without area is the segment its corners span.
InTriangle(p, a, b, c) ==
    /\ ~(/\ Cross(a, b, p) < 0 \/ Cross(b, c, p) < 0 \/ Cross(c, a, p) < 0
         /\ Cross(a, b, p) > 0 \/ Cross(b, c, p) > 0 \/ Cross(c, a, p) > 0)
    /\ SetMin({a[1], b[1], c[1]}) <= p[1] /\ p[1] <= SetMax({a[1], b[1], c[1]})
    /\ SetMin({a[2], b[2], c[2]}) <= p[2] /\ p[2] <= SetMax({a[2], b[2], c[2]})

\* The pixels cv2.fillConvexPoly sets for four points: those of the region
\* the points span, its border included.
fillConvexPoly(points, p) ==
    \E i, j, k \in 1..4 :
        i < j /\ j < k /\ InTriangle(p, points[i], points[j], points[k])

\* mask = np.zeros(...); cv2.fillConvexPoly(mask, ordered_points, 255)
polygon_mask(laptop_image, ordered_points) ==
    [kind |-> "mask", w |-> laptop_image.w, h |-> laptop_image.h,
     px |-> [y \in 0..(laptop_image.h - 1) |->
               [x \in 0..(laptop_image.w - 1) |->
                  IF fillConvexPoly(ordered_points, << x, y >>)
                  THEN 255 ELSE 0]]]

\* cv2.warpPerspective of a content of one colour onto the quadrilateral:
\* the colour inside it and the constant border 0 outside.
warped_sample(ordered_points, screen_content, y, x) ==
    IF fillConvexPoly(ordered_points, << x, y >>)
    THEN screen_content.value ELSE 0

\* cv2.GaussianBlur(mask, (5, 5), 0) on 8-bit samples, over the whole
\* image: the weighted sum rounded to the nearest integer.
BlurU8(mask, y, x) ==
    (Blur256(mask, [x_min |-> 0, x_max |-> mask.w,
                    y_min |-> 0, y_max |-> mask.h], y, x) + 128) \div 256

\* The blended pixel for an 8-bit blurred mask value: mask_blurred is
\* blurred.astype(np.float32) / 255.0.
BlendPixelU8(warped, region, blur) ==
    BlendWith(warped, region, F32(FDivInt(blur, 255)))

\* The blend of replace_screen_with_perspective over the whole image.
blend_perspective(laptop_image, ordered_points, screen_content, mask) ==
    [laptop_image EXCEPT
        !.kind = "blended",
        !.px = [y \in 0..(laptop_image.h - 1) |->
                  [x \in 0..(laptop_image.w - 1) |->
                     BlendPixelU8(warped_sample(ordered_points,
                                                screen_content, y, x),
                                  laptop_image.px[y][x],
                                  BlurU8(mask, y, x))]]]

\* ScreenEditor.replace_screen_with_perspective: the input for a polygon of
\* fewer than 4 points and when cv2.warpPerspective raises on an empty
\* content.
replace_screen_with_perspective(laptop_image, polygon, screen_content) ==
    IF Len(polygon) < 4 THEN laptop_image
    ELSE IF screen_content.w = 0 \/ screen_content.h = 0 THEN laptop_image
    ELSE blend_perspective(
             laptop_image, order_points(SubSeq(polygon, 1, 4)),
             screen_content,
             polygon_mask(laptop_image, order_points(SubSeq(polygon, 1, 4))))

\* image with the pixels where the mask is above 127 set to color: the
\* effect of buffer[mask > 127] = color on a buffer holding image.
masked_fill(image, mask, color) ==
    [image EXCEPT
        !.px = [y \in 0..(image.h - 1) |->
                  [x \in 0..(image.w - 1) |->
                     IF mask_on(mask.px[y][x]) THEN color
                     ELSE image.px[y][x]]]]

\* The assignment made on the caller's buffer itself.
fill_in_place(image, mask, color) ==
    [result |-> masked_fill(image, mask, color),
     image |-> masked_fill(image, mask, color)]

\* result = image.copy(); result[mask > 127] = color: the image returned
\* and the caller's buffer after the call.
fill_copy(image, mask, color) ==
    [result |-> [masked_fill(image, mask, color) EXCEPT !.kind = "copy"],
     image |-> image]

\* ScreenEditor.fill_screen_color for an image and a mask of one shape.
fill_screen_color(image, mask, color) == fill_copy(image, mask, color)

\* ScreenEditor.fill_screen_black: the same with [0, 0, 0].
fill_screen_black(image, mask) == fill_copy(image, mask, 0)

\* ------------------------------------------------------------------------
\* Calls of the screen editor
\* ------------------------------------------------------------------------

ImgW == 3
ImgH == 2

\* An image of ImgW x ImgH with the pixels f[y][x].
Pixels(f) == [kind |-> "input", w |-> ImgW, h |-> ImgH, px |-> f]

\* Two flat images and one in which no two pixels are alike.
LaptopImages ==
    {Pixels([y \in 0..(ImgH - 1) |-> [x \in 0..(ImgW - 1) |-> 10]]),
     Pixels([y \in 0..(ImgH - 1) |-> [x \in 0..(ImgW - 1) |-> 255]]),
     Pixels([y \in 0..(ImgH - 1) |->
                [x \in 0..(ImgW - 1) |-> 20 * (y * ImgW + x)]])}

\* 127 is the largest value that is off and 128 the smallest that is on.
MaskValues == {0, 127, 128, 255}

\* The masks that have one value on a rectangle and one value around it.
Masks ==
    {Pixels([y \in 0..(ImgH - 1) |->
                [x \in 0..(ImgW - 1) |->
                    IF x0 <= x /\ x <= x1 /\ y0 <= y /\ y <= y1
                    THEN inner ELSE outer]]) :
        x0 \in 0..(ImgW - 1), x1 \in 0..(ImgW - 1),
        y0 \in 0..(ImgH - 1), y1 \in 0..(ImgH - 1),
        inner \in MaskValues, outer \in MaskValues}

\* Contents of one colour, empty or not.
Contents ==
    {[kind |-> "input", w |-> n, h |-> n, value |-> v] :
        n \in {0, 2}, v \in {0, 200, 255}}

\* Fill colours: black, white and one in between.
Colors == {0, 127, 255}

\* Corners for the polygons of the screen: three corners of the image and
\* a point of its last row.
ScreenPoints ==
    {<< 0, 0 >>, << ImgW - 1, 0 >>, << ImgW - 1, ImgH - 1 >>,
     << 1, ImgH - 1 >>}

\* Every polygon of 4 of these points in every order, and one of 3 points.
ScreenPolygons ==
    [1..4 -> ScreenPoints]
    \cup {<< << 0, 0 >>, << ImgW - 1, 0 >>, << 1, ImgH - 1 >> >>}

InitScreen ==
    /\ op = "call"
    /\ arg \in [fn : {"replace_screen_with_image"},
                laptop_image : LaptopImages, mask : Masks,
                screen_content : Contents, blend : BOOLEAN]
          \cup [fn : {"replace_screen_with_perspective"},
                laptop_image : LaptopImages, polygon : ScreenPolygons,
                screen_content : Contents]
          \cup [fn : {"fill_screen_color"}, image : LaptopImages,
                mask : Masks, color : Colors]
          \cup [fn : {"fill_screen_black"}, image : LaptopImages,
                mask : Masks]
    /\ res = None

ReplaceScreenWithImage ==
    /\ op = "call"
    /\ arg.fn = "replace_screen_with_image"
    /\ res' = replace_screen_with_image(arg.laptop_image, arg.mask,
                                        arg.screen_content, arg.blend)
    /\ op' = "replace_screen_with_image"
    /\ UNCHANGED arg

ReplaceScreenWithPerspective ==
    /\ op = "call"
    /\ arg.fn = "replace_screen_with_perspective"
    /\ res' = replace_screen_with_perspective(arg.laptop_image, arg.polygon,
                                              arg.screen_content)
    /\ op' = "replace_screen_with_perspective"
    /\ UNCHANGED arg

FillScreenColor ==
    /\ op = "call"
    /\ arg.fn = "fill_screen_color"
    /\ res' = fill_screen_color(arg.image, arg.mask, arg.color)
    /\ op' = "fill_screen_color"
    /\ UNCHANGED arg

FillScreenBlack ==
    /\ op = "call"
    /\ arg.fn = "fill_screen_black"
    /\ res' = fill_screen_black(arg.image, arg.mask)
    /\ op' = "fill_screen_black"
    /\ UNCHANGED arg

NextScreen ==
    \/ ReplaceScreenWithImage
    \/ ReplaceScreenWithPerspective
    \/ FillScreenColor
    \/ FillScreenBlack

SpecScreen == InitScreen /\ [][NextScreen]_vars

\* ------------------------------------------------------------------------
\* ImageCropper.smart_crop (cropper.py)
\* ------------------------------------------------------------------------

\* smart_crop after both ratios are computed: the image itself when it has
\* the target size already, otherwise a centred crop to the target ratio
\* (when the ratios differ by more than the tolerance) followed by
\* resize(..., maintain_aspect=False). resize returns its argument when
\* cv2.resize raises, so the cropped image comes back in that case.
smart_crop_ratio(image, target_ratio, current_ratio, target_width, target_height) ==
    IF image.w = target_width /\ image.h = target_height THEN image
    ELSE resize(IF FLess(Tolerance, FAbsDiff(current_ratio, target_ratio))
                THEN crop_to_aspect_ratio(image, target_ratio, TRUE)
                ELSE image,
                [width |-> target_width, height |-> target_height], FALSE)

\* ImageCropper.smart_crop: a division by zero in one of the two ratios
\* goes to the except branch, which returns the image.
smart_crop(image, target_width, target_height) ==
    IF target_height = 0 \/ image.h = 0 THEN image
    ELSE smart_crop_ratio(image, FDivInt(target_width, target_height),
                          FDivInt(image.w, image.h),
                          target_width, target_height)

MaxSmartDim == 4

SmartImages == {Image(w, h) : w \in 1..MaxSmartDim, h \in 1..MaxSmartDim}

InitSmart ==
    /\ op = "call"
    /\ arg \in [fn : {"smart_crop"}, image : SmartImages,
                target_width : 1..MaxSmartDim,
                target_height : 1..MaxSmartDim]
    /\ res = None

SmartCrop ==
    /\ op = "call"
    /\ arg.fn = "smart_crop"
    /\ res' = smart_crop(arg.image, arg.target_width, arg.target_height)
    /\ op' = "smart_crop"
    /\ UNCHANGED arg

NextSmart == SmartCrop

SpecSmart == InitSmart /\ [][NextSmart]_vars

\* ------------------------------------------------------------------------
\* ImageResizer.get_optimal_scale (resizer.py)
\* ------------------------------------------------------------------------

\* target / side for an int target of either sign and a side > 0: the sign
\* and the magnitude of the quotient (a quotient of 0 is not negative).
SignedDiv(target, side) ==
    [neg |-> target < 0,
     mag |-> FDivInt(IF target < 0 THEN -target ELSE target, side)]

\* a < b for two signed quotients.
SignedLess(a, b) ==
    IF a.neg THEN (IF b.neg THEN FLess(b.mag, a.mag) ELSE TRUE)
    ELSE (IF b.neg THEN FALSE ELSE FLess(a.mag, b.mag))

\* min(scale_w, scale_h) for "fit", max(scale_w, scale_h) otherwise.
optimal_scale(scale_w, scale_h, fit_mode) ==
    IF fit_mode = "fit"
    THEN (IF SignedLess(scale_h, scale_w) THEN scale_h ELSE scale_w)
    ELSE (IF SignedLess(scale_w, scale_h) THEN scale_h ELSE scale_w)

\* ImageResizer.get_optimal_scale: no try, so the ZeroDivisionError of
\* target_width / w or target_height / h leaves the function.
get_optimal_scale(image_shape, target_width, target_height, fit_mode) ==
    IF image_shape[2] = 0 \/ image_shape[1] = 0
    THEN [raised |-> "ZeroDivisionError"]
    ELSE [value |-> optimal_scale(SignedDiv(target_width, image_shape[2]),
                                  SignedDiv(target_height, image_shape[1]),
                                  fit_mode)]

MaxShape == 3

\* (height, width) of an image, 0 included.
ImageShapes == (0..MaxShape) \X (0..MaxShape)

InitScale ==
    /\ op = "call"
    /\ arg \in [fn : {"get_optimal_scale"}, image_shape : ImageShapes,
                target_width : (-1)..MaxShape,
                target_height : (-1)..MaxShape,
                fit_mode : {"fit", "fill"}]
    /\ res = None

GetOptimalScale ==
    /\ op = "call"
    /\ arg.fn = "get_optimal_scale"
    /\ res' = get_optimal_scale(arg.image_shape, arg.target_width,
                                arg.target_height, arg.fit_mode)
    /\ op' = "get_optimal_scale"
    /\ UNCHANGED arg

NextScale == GetOptimalScale

SpecScale == InitScale /\ [][NextScale]_vars

\* ------------------------------------------------------------------------
\* ImageProcessor (pipeline/processor.py)
\* ------------------------------------------------------------------------

\* The values of ScreenFillMode.
ScreenFillMode == {"black", "color", "image", "none"}

\* ProcessingResult(input_path=input_path): the defaults of the dataclass
\* (processing_time and screen_confidence carry no outcome and are left out).
ProcessingResult(input_path) ==
    [input_path |-> input_path, output_path |-> None, success |-> FALSE,
     error |-> None, screen_detected |-> FALSE]

\* f"{stem}{suffix}.{output_format}"
get_output_filename(input_path, output_format, suffix) ==
    input_path.stem \o suffix \o "." \o output_format

\* self.fill_image_cache: None, or the array loaded from a path.
NoCache == [loaded |-> FALSE]

Loaded(path) == [loaded |-> TRUE, path |-> path]

\* ImageLoader.load_image(path): the array, or None when the file cannot be
\* read (the loader catches every exception itself).
load_image(path, loads) == IF loads THEN Loaded(path) ELSE NoCache

\* An image in the pipeline: the file it was loaded from and the editing
\* calls applied to it so far, in order.
Edit(image, name, content) ==
    [image EXCEPT !.steps = Append(@, [call |-> name, content |-> content])]

\* The cache after step 3 of process_single: loaded on first use.
cache_after(options, cache, e) ==
    IF e.detect.kind = "found" /\ options.fill_mode = "image"
       /\ options.fill_image_path # None /\ ~cache.loaded
    THEN load_image(options.fill_image_path, e.fill_loads)
    ELSE cache

\* Step 3 of process_single, with the cache as it is after the load.
fill_screen(image, options, cache, e) ==
    IF options.fill_mode = "black"
    THEN Edit(image, "fill_screen_black", None)
    ELSE IF options.fill_mode = "color"
    THEN Edit(image, "fill_screen_color", None)
    ELSE IF options.fill_mode = "image" /\ options.fill_image_path # None
            /\ cache.loaded
    THEN (IF options.use_perspective /\ e.detect.points >= 4
          THEN Edit(image, "replace_screen_with_perspective", cache.path)
          ELSE Edit(image, "replace_screen_with_image", cache.path))
    ELSE image

\* Steps 4 and 5 of process_single: each editor returns an image (its
\* argument when it fails), so none of them raises.
crop_and_resize(image, options) ==
    LET a == IF options.auto_crop THEN Edit(image, "auto_crop", None)
             ELSE image
        b == IF options.crop_aspect_ratio # None
             THEN Edit(a, "crop_to_aspect_ratio", None) ELSE a
    IN  IF options.resize THEN Edit(b, "resize", None) ELSE b

\* A step 6 that reports success with an output path whatever the save
\* did.
save_claiming_success(result, image, output_dir, options, e) ==
    [result |-> [result EXCEPT
                    !.success = TRUE,
                    !.output_path =
                        << output_dir,
                           get_output_filename(result.input_path,
                               options.output_format,
                               options.output_suffix) >>],
     saved |-> IF e.mkdir /\ e.saves THEN << image >> ELSE << >>]

\* Step 6 of process_single: ensure_directory (an OSError goes to the except
\* branch), get_output_filename, save_image (False when the save fails).
save_step(result, image, output_dir, options, e) ==
    IF ~e.mkdir
    THEN [result |-> [result EXCEPT !.error = "OSError"], saved |-> << >>]
    ELSE IF e.saves
    THEN [result |-> [result EXCEPT
                         !.success = TRUE,
                         !.output_path =
                             << output_dir,
                                get_output_filename(result.input_path,
                                    options.output_format,
                                    options.output_suffix) >>],
          saved |-> << image >>]
    ELSE [result |-> [result EXCEPT !.error = "save error"],
          saved |-> << >>]

\* ImageProcessor.process_single under the outcomes e of the calls it makes
\* to its environment (loader, detector, file system): the result, and the
\* images written. The detector is the one given to the constructor; an
\* exception it raises is caught by the try of process_single.
process_single(input_path, output_dir, options, cache, e) ==
    IF ~e.loads
    THEN [result |-> [ProcessingResult(input_path) EXCEPT
                         !.error = "load error"],
          saved |-> << >>]
    ELSE IF e.detect.kind = "raise"
    THEN [result |-> [ProcessingResult(input_path) EXCEPT
                         !.error = "detector error"],
          saved |-> << >>]
    ELSE IF e.detect.kind = "None" /\ options.fill_mode # "none"
    THEN [result |-> [ProcessingResult(input_path) EXCEPT
                         !.error = "screen not found"],
          saved |-> << >>]
    ELSE save_step([ProcessingResult(input_path) EXCEPT
                       !.screen_detected = (e.detect.kind = "found")],
                   crop_and_resize(
                       IF e.detect.kind = "found"
                       THEN fill_screen([src |-> input_path, steps |-> << >>],
                                        options, cache, e)
                       ELSE [src |-> input_path, steps |-> << >>],
                       options),
                   output_dir, options, e)

\* What went wrong on a file under the outcomes e ("ok" when nothing did).
Failure(options, e) ==
    IF ~e.loads THEN "load"
    ELSE IF e.detect.kind = "raise" THEN "detector"
    ELSE IF e.detect.kind = "None" /\ options.fill_mode # "none"
    THEN "no screen"
    ELSE IF ~e.mkdir THEN "directory"
    ELSE IF ~e.saves THEN "save"
    ELSE "ok"

\* A loop that keeps the results of the saved files only.
append_if_success(results, result) ==
    IF result.success THEN Append(results, result) ELSE results

\* results.append(result)
append_result(results, result) == Append(results, result)

MaxFiles == 2

InputPaths == {[parent |-> "in", stem |-> s, suffix |-> ".jpg"] :
                  s \in {"a", "b"}}

InputFiles == UNION {[1..n -> InputPaths] : n \in 0..MaxFiles}

\* ProcessingOptions(fill_mode, fill_image_path, use_perspective, ...): the
\* fields process_single reads, post-processing (auto_crop,
\* crop_aspect_ratio, resize) all on or all off.
ProcessingOptions(m, p, u, c) ==
    [fill_mode |-> m, fill_image_path |-> p, use_perspective |-> u,
     auto_crop |-> c, crop_aspect_ratio |-> IF c THEN "16/9" ELSE None,
     resize |-> c, output_format |-> "png", output_suffix |-> "_processed"]

\* The options of a call: fill_image_path and use_perspective keep their
\* defaults (None, True) in the modes that do not read them.
Options ==
    {ProcessingOptions(m, None, TRUE, c) :
        m \in ScreenFillMode, c \in BOOLEAN}
    \cup {ProcessingOptions("image", "fill.png", u, c) :
              u \in BOOLEAN, c \in BOOLEAN}

DetectOutcomes ==
    {[kind |-> "None"], [kind |-> "raise"],
     [kind |-> "found", points |-> 3], [kind |-> "found", points |-> 4]}

Outcomes ==
    [loads : BOOLEAN, detect : DetectOutcomes, fill_loads : BOOLEAN,
     mkdir : BOOLEAN, saves : BOOLEAN]

\* The processor after construction (fill_image_cache = None), with nothing
\* processed, reported or written yet.
NewProcessor ==
    [results |-> << >>, fill_image_cache |-> NoCache, progress |-> << >>,
     failures |-> << >>, saved |-> << >>]

InitBatch ==
    /\ op = "call"
    /\ arg \in [fn : {"process_batch"}, input_files : InputFiles,
                output_dir : {"out"}, options : Options,
                progress_callback : BOOLEAN]
    /\ res = NewProcessor

\* process_batch up to the loop: the fill image is loaded into the cache
\* of the processor (None after construction) when the mode is IMAGE and a
\* path is given.
BatchPreload ==
    /\ op = "call"
    /\ arg.fn = "process_batch"
    /\ \E loads \in BOOLEAN :
          res' = [res EXCEPT
                     !.results = << >>,
                     !.fill_image_cache =
                         IF arg.options.fill_mode = "image"
                            /\ arg.options.fill_image_path # None
                         THEN load_image(arg.options.fill_image_path, loads)
                         ELSE @]
    /\ op' = "process_batch.for"
    /\ UNCHANGED arg

\* One iteration of the loop: the callback, process_single, the append.
BatchFile ==
    /\ op = "process_batch.for"
    /\ Len(res.results) < Len(arg.input_files)
    /\ \E e \in Outcomes :
          LET i == Len(res.results) + 1
              input_path == arg.input_files[i]
              single == process_single(input_path, arg.output_dir,
                            arg.options, res.fill_image_cache, e)
          IN  res' = [results |-> append_result(res.results, single.result),
                      fill_image_cache |->
                          IF e.loads
                          THEN cache_after(arg.options,
                                           res.fill_image_cache, e)
                          ELSE res.fill_image_cache,
                      progress |->
                          IF arg.progress_callback
                          THEN Append(res.progress,
                                   << i, Len(arg.input_files),
                                      input_path.stem \o input_path.suffix >>)
                          ELSE res.progress,
                      failures |-> Append(res.failures,
                                          Failure(arg.options, e)),
                      saved |-> res.saved \o single.saved]
    /\ UNCHANGED << op, arg >>

\* The end of the loop: return results.
BatchReturn ==
    /\ op = "process_batch.for"
    /\ Len(res.results) = Len(arg.input_files)
    /\ op' = "process_batch"
    /\ UNCHANGED << arg, res >>

NextBatch == BatchPreload \/ BatchFile \/ BatchReturn

\* The loop body always returns (none of the calls blocks), so the call
\* goes on as long as a step is left.
SpecBatch == InitBatch /\ [][NextBatch]_vars /\ WF_vars(NextBatch)

\* ------------------------------------------------------------------------
\* calculate_perspective_size on collinear points
\* ------------------------------------------------------------------------

MaxLineLen == 4

\* A line on the grid: its first point and the step to the next one, for
\* the horizontal, the vertical and the two diagonal directions.
Lines ==
    {[from |-> << 0, 0 >>, step |-> << 1, 0 >>],
     [from |-> << 0, 0 >>, step |-> << 0, 1 >>],
     [from |-> << 0, 0 >>, step |-> << 1, 1 >>],
     [from |-> << 0, MaxLineLen >>, step |-> << 1, -1 >>]}

\* The point of a line at the position t.
LinePoint(line, t) ==
    << line.from[1] + t * line.step[1], line.from[2] + t * line.step[2] >>

\* 4 distinct points of one line, in every order.
CollinearInputs ==
    {[i \in 1..4 |-> LinePoint(line, t[i])] :
        line \in Lines,
        t \in {u \in [1..4 -> 0..MaxLineLen] :
                  \A i, j \in 1..4 : i # j => u[i] # u[j]}}

InitLine ==
    /\ op = "call"
    /\ arg \in [fn : {"calculate_perspective_size"}, points : CollinearInputs]
    /\ res = None

SizeOfLine ==
    /\ op = "call"
    /\ arg.fn = "calculate_perspective_size"
    /\ res' = calculate_perspective_size(arg.points)
    /\ op' = "calculate_perspective_size"
    /\ UNCHANGED arg

NextLine == SizeOfLine

SpecLine == InitLine /\ [][NextLine]_vars

\* ------------------------------------------------------------------------
\* Extraction and insertion by perspective (perspective.py)
\*
\* A perspective matrix is fixed by its 4 correspondences src[i] -> dst[i],
\* so the matrix is modelled by them.  Positions are pairs of rationals
\* [n, d], n / d.
\* ------------------------------------------------------------------------

Rat(n) == [n |-> n, d |-> 1]

RatEq(a, b) == a.n * b.d = b.n * a.d

\* [[0, 0], [w - 1, 0], [w - 1, h - 1], [0, h - 1]]
corner_points(w, h) ==
    << << 0, 0 >>, << w - 1, 0 >>, << w - 1, h - 1 >>, << 0, h - 1 >> >>

\* cv2.getPerspectiveTransform(src, dst)
getPerspectiveTransform(src, dst) == [src |-> src, dst |-> dst]

\* The 8 equations of the matrix are regular only when no three of the
\* source points and no three of the target points lie on a line.
Singular(matrix) ==
    ~GeneralPosition(matrix.src) \/ ~GeneralPosition(matrix.dst)

\* c1 + (x - a1) * (c2 - c1) / (a2 - a1): where the map that takes a1 to c1
\* and a2 to c2 on one axis takes x.
axis_point(a1, a2, c1, c2, x) ==
    [n |-> c1 * x.d * (a2 - a1) + (x.n - a1 * x.d) * (c2 - c1),
     d |-> x.d * (a2 - a1)]

\* The regular matrix that takes an axis-aligned rectangle [tl, tr, br, bl]
\* to another maps each axis by itself.
rectangle_point(matrix, p) ==
    << axis_point(matrix.src[1][1], matrix.src[2][1],
                  matrix.dst[1][1], matrix.dst[2][1], p[1]),
       axis_point(matrix.src[1][2], matrix.src[4][2],
                  matrix.dst[1][2], matrix.dst[4][2], p[2]) >>

MaxRect == 3

\* The positions of the image.
Anywhere == {<< Rat(x), Rat(y) >> : x \in 0..MaxRect, y \in 0..MaxRect}

\* Where a matrix between axis-aligned rectangles takes p. A singular
\* system has no solution that fits its correspondences; what comes out of
\* the solver for it takes p to a position that is not determined by them.
perspective_point(matrix, p) ==
    IF Singular(matrix) THEN Anywhere ELSE {rectangle_point(matrix, p)}

\* The matrix of extract_screen_region: the ordered points to the corners of
\* an image of the size of the quad.
extract_matrix(polygon, size) ==
    getPerspectiveTransform(order_points(FirstFour(polygon)),
                            corner_points(size[1], size[2]))

extract_transform(polygon) ==
    extract_matrix(polygon,
        calculate_perspective_size(order_points(FirstFour(polygon))))

\* The matrix of warp_image_to_polygon: the corners of the content to the
\* ordered points.
warp_transform(image, polygon) ==
    getPerspectiveTransform(corner_points(image.w, image.h),
                            order_points(FirstFour(polygon)))

\* The image of the round trip, MaxRect + 1 pixels wide and high.
RoundTripImage == Image(MaxRect + 1, MaxRect + 1)

\* The corners of the axis-aligned rectangles inside the image, in every
\* order.
RectanglePolygons ==
    {[i \in 1..4 |->
         << << r[1], r[3] >>, << r[2], r[3] >>,
            << r[2], r[4] >>, << r[1], r[4] >> >>[f[i]]] :
        r \in {s \in [1..4 -> 0..MaxRect] : s[1] < s[2] /\ s[3] < s[4]},
        f \in Perms4}

InitRoundTrip ==
    /\ op = "call"
    /\ arg \in [fn : {"extract_screen_region"}, image : {RoundTripImage},
                polygon : RectanglePolygons]
    /\ res = None

\* extracted = extract_screen_region(image, Q)
RoundTripExtract ==
    /\ op = "call"
    /\ arg.fn = "extract_screen_region"
    /\ \E o \in extract_screen_region(arg.image, arg.polygon) :
          res' = [extracted |-> o, matrix |-> extract_transform(arg.polygon)]
    /\ op' = "extract_screen_region"
    /\ UNCHANGED arg

\* warp_image_to_polygon(extracted, Q, image.shape[:2])
RoundTripWarp ==
    /\ op = "extract_screen_region"
    /\ res.extracted # NoImage
    /\ \E o \in warp_image_to_polygon(res.extracted, arg.polygon,
                                      << arg.image.h, arg.image.w >>) :
          res' = [extracted |-> res.extracted, matrix |-> res.matrix,
                  back |-> warp_transform(res.extracted, arg.polygon),
                  canvas |-> o]
    /\ op' = "warp_image_to_polygon"
    /\ UNCHANGED arg

NextRoundTrip == RoundTripExtract \/ RoundTripWarp

SpecRoundTrip == InitRoundTrip /\ [][NextRoundTrip]_vars

\* ------------------------------------------------------------------------
\* Calls of ImageResizer.resize
\* ------------------------------------------------------------------------

\* width and height of a call: each left at None (no field) or given.
SizeOptions ==
    {<< >>}
    \cup {[width |-> tw] : tw \in 1..MaxTargetW}
    \cup {[height |-> th] : th \in 1..MaxTargetH}
    \cup {[width |-> tw, height |-> th] :
             tw \in 1..MaxTargetW, th \in 1..MaxTargetH}

InitSize ==
    /\ op = "call"
    /\ arg \in [fn : {"resize"}, image : ResizeImages, size : SizeOptions,
                maintain_aspect : BOOLEAN]
    /\ res = None

Resize ==
    /\ op = "call"
    /\ arg.fn = "resize"
    /\ res' = resize(arg.image, arg.size, arg.maintain_aspect)
    /\ op' = "resize"
    /\ UNCHANGED arg

NextSize == Resize

SpecSize == InitSize /\ [][NextSize]_vars

\* ------------------------------------------------------------------------
\* cropper.py: ImageCropper.auto_crop.  An image carries its samples in px,
\* a function from <<x, y>> to the value shared by the channels of the
\* pixel.
\* ------------------------------------------------------------------------

tolerance == 30

\* cv2.inRange on one pixel: every channel lies in [lower, upper].
inRange(v, background_color) ==
    /\ Max2(0, background_color - tolerance) <= v
    /\ v <= Min2(255, background_color + tolerance)

\* cv2.bitwise_not(cv2.inRange(...)): the pixels that are not background.
foreground_mask(image, background_color) ==
    {p \in DOMAIN image.px : ~inRange(image.px[p], background_color)}

Touching(p, q) ==
    /\ p[1] - q[1] \in -1..1
    /\ p[2] - q[2] \in -1..1

RECURSIVE Component(_, _)
Component(c, mask) ==
    LET more == {q \in mask \ c : \E p \in c : Touching(p, q)}
    IN  IF more = {} THEN c ELSE Component(c \cup more, mask)

\* cv2.findContours(mask, RETR_EXTERNAL, ...): one outer contour for each
\* 8-connected component of the mask.
findContours(mask) == {Component({p}, mask) : p \in mask}

\* cv2.boundingRect of the outer contour of a component.
boundingRect(contour) ==
    LET x == SetMin({p[1] : p \in contour})
        y == SetMin({p[2] : p \in contour})
    IN  [x |-> x, y |-> y,
         w |-> SetMax({p[1] : p \in contour}) - x + 1,
         h |-> SetMax({p[2] : p \in contour}) - y + 1]

\* The slice of the box as found, with no margin round it.
slice_box(image, box, margin) ==
    Slice(image, box.y_min, box.y_max, box.x_min, box.x_max)

\* The margin, clamped to the image, then the slice.
slice_with_margin(image, box, margin) ==
    Slice(image,
          Max2(0, box.y_min - margin), Min2(image.h, box.y_max + margin),
          Max2(0, box.x_min - margin), Min2(image.w, box.x_max + margin))

\* The loop over the contours, then the margin and the slice.
crop_to_contours(image, rects, margin) ==
    slice_with_margin(image,
                      [x_min |-> SetMin({image.w} \cup {r.x : r \in rects}),
                       y_min |-> SetMin({image.h} \cup {r.y : r \in rects}),
                       x_max |-> SetMax({0} \cup {r.x + r.w : r \in rects}),
                       y_max |-> SetMax({0} \cup {r.y + r.h : r \in rects})],
                      margin)

auto_crop(image, background_color, margin) ==
    LET contours == findContours(foreground_mask(image, background_color))
    IN  IF contours = {}
        THEN image
        ELSE crop_to_contours(image,
                              {boundingRect(c) : c \in contours}, margin)

AutoW == 3
AutoH == 2

AutoPixels == (0..(AutoW - 1)) \X (0..(AutoH - 1))

\* A background colour with a background sample and a foreground sample at
\* one edge of its band.
Palettes ==
    {[background_color |-> 100, bg |-> 70, fg |-> 69],
     [background_color |-> 100, bg |-> 130, fg |-> 131],
     [background_color |-> 255, bg |-> 225, fg |-> 224],
     [background_color |-> 10, bg |-> 0, fg |-> 41]}

Margins == {-1, 0, 1}

AutoImage(palette, marked) ==
    [kind |-> "input", w |-> AutoW, h |-> AutoH, x |-> 0, y |-> 0,
     px |-> [p \in AutoPixels |->
                IF p \in marked THEN palette.fg ELSE palette.bg]]

InitAuto ==
    /\ op = "call"
    /\ res = "None"
    /\ \E palette \in Palettes, marked \in SUBSET AutoPixels,
          margin \in Margins :
          arg = [fn |-> "auto_crop",
                 image |-> AutoImage(palette, marked),
                 background_color |-> palette.background_color,
                 margin |-> margin]

AutoCrop ==
    /\ op = "call"
    /\ arg.fn = "auto_crop"
    /\ op' = "auto_crop"
    /\ res' = auto_crop(arg.image, arg.background_color, arg.margin)
    /\ UNCHANGED arg

NextAuto == AutoCrop

SpecAuto == InitAuto /\ [][NextAuto]_vars

\* ------------------------------------------------------------------------
\* geometry.py: mask_to_polygon, and inference.py:
\* ScreenDetector._mask_to_polygon.  A mask is a function from <<x, y>> to a
\* sample; the masks drawn here are unions of filled upright rectangles that
\* do not touch, so every component is a rectangle.
\* ------------------------------------------------------------------------

\* cv2.threshold(mask, 127, 255, THRESH_BINARY)
threshold(mask) == [p \in DOMAIN mask |-> IF mask[p] > 127 THEN 255 ELSE 0]

\* The pixels cv2.findContours takes as foreground: the non-zero ones.
NonZero(mask) == {p \in DOMAIN mask : mask[p] # 0}

\* The outer contour of a filled rectangle under CHAIN_APPROX_SIMPLE: its
\* corners, from the top left one and down the left side first; a line has
\* its two ends and a single pixel is one point.
contour_points(component) ==
    LET x0 == SetMin({p[1] : p \in component})
        y0 == SetMin({p[2] : p \in component})
        x1 == SetMax({p[1] : p \in component})
        y1 == SetMax({p[2] : p \in component})
    IN  IF x0 = x1 /\ y0 = y1 THEN << <<x0, y0>> >>
        ELSE IF x0 = x1 \/ y0 = y1 THEN << <<x0, y0>>, <<x1, y1>> >>
        ELSE << <<x0, y0>>, <<x0, y1>>, <<x1, y1>>, <<x1, y0>> >>

\* cv2.contourArea of such a contour: the area between the pixel centres.
contourArea(contour) ==
    IF Len(contour) < 4 THEN 0
    ELSE (contour[3][1] - contour[1][1]) * (contour[3][2] - contour[1][2])

\* cv2.arcLength(contour, True) of such a contour.
arcLength(contour) ==
    IF Len(contour) = 1 THEN 0
    ELSE LET a == contour[1]
             b == contour[IF Len(contour) = 2 THEN 2 ELSE 3]
         IN  2 * ((b[1] - a[1]) + (b[2] - a[2]))

\* max(contours, key=cv2.contourArea): a contour of the largest area; the
\* order of the contours decides between equals.
largest_contours(contours) ==
    {c \in contours : \A d \in contours : contourArea(d) <= contourArea(c)}

\* cv2.approxPolyDP(contour, 0.01 * arcLength, True) of such a contour: a
\* contour of one or two points is kept; of the four corners the two off
\* the diagonal are kept when they lie further from it than epsilon, that
\* is when (w * h)^2 > epsilon^2 * (w^2 + h^2).
approxPolyDP(contour) ==
    IF Len(contour) < 4 THEN contour
    ELSE LET w == contour[3][1] - contour[1][1]
             h == contour[3][2] - contour[1][2]
         IN  IF 10000 * (w * h) * (w * h)
                    > arcLength(contour) * arcLength(contour) * (w * w + h * h)
             THEN contour
             ELSE << contour[1], contour[3] >>

\* Polygon(points): the constructor keeps whatever points it is given.
Polygon(points) == [returned |-> "Polygon", points |-> points]

NoPolygon == [returned |-> "None", points |-> << >>]

\* From the contours on: None without contours, else the approximated
\* largest contour as a Polygon.
polygons_of(contours) ==
    IF contours = {} THEN {NoPolygon}
    ELSE {Polygon(approxPolyDP(c)) : c \in largest_contours(contours)}

mask_to_polygon(mask) ==
    polygons_of({contour_points(c) : c \in findContours(NonZero(mask))})

\* ScreenDetector._mask_to_polygon; no statement of its try block raises.
detector_mask_to_polygon(mask) ==
    polygons_of({contour_points(c) :
                    c \in findContours(NonZero(threshold(mask)))})

MaskW == 4
MaskH == 3

MaskPixels == (0..(MaskW - 1)) \X (0..(MaskH - 1))

\* The pixels of the filled rectangles of the mask grid.
Rectangles ==
    {{p \in MaskPixels : p[1] \in a..b /\ p[2] \in c..d} :
        a \in 0..(MaskW - 1), b \in 0..(MaskW - 1),
        c \in 0..(MaskH - 1), d \in 0..(MaskH - 1)} \ {{}}

Apart(r, s) == \A p \in r, q \in s : ~Touching(p, q)

\* A strong sample, a weak one that the threshold removes, or none.
MaskSamples == {255, 100}

PolygonMasks ==
    {[p \in MaskPixels |-> 0]}
    \cup {[p \in MaskPixels |-> IF p \in r THEN v ELSE 0] :
            r \in Rectangles, v \in MaskSamples}
    \cup {[p \in MaskPixels |->
              IF p \in rs[1] THEN v ELSE IF p \in rs[2] THEN 255 ELSE 0] :
            v \in MaskSamples,
            rs \in {t \in Rectangles \X Rectangles : Apart(t[1], t[2])}}

InitMask ==
    /\ op = "call"
    /\ res = NoPolygon
    /\ \E fn \in {"mask_to_polygon", "_mask_to_polygon"}, mask \in PolygonMasks :
          arg = [fn |-> fn, mask |-> mask]

MaskToPolygon ==
    /\ op = "call"
    /\ arg.fn = "mask_to_polygon"
    /\ op' = "mask_to_polygon"
    /\ res' \in mask_to_polygon(arg.mask)
    /\ UNCHANGED arg

DetectorMaskToPolygon ==
    /\ op = "call"
    /\ arg.fn = "_mask_to_polygon"
    /\ op' = "_mask_to_polygon"
    /\ res' \in detector_mask_to_polygon(arg.mask)
    /\ UNCHANGED arg

NextMask == MaskToPolygon \/ DetectorMaskToPolygon

SpecMask == InitMask /\ [][NextMask]_vars

\* ------------------------------------------------------------------------
\* tasks.py: TaskQueue and ParallelProcessor.  The main thread runs
\* process_batch; op is its position.  res holds the TaskQueue and the
\* processor: the FIFO queue (0 is the None sentinel, i > 0 the task of
\* items[i]), the count of unfinished tasks of queue.Queue, is_running, the
\* worker threads with their positions, and results.
\* ------------------------------------------------------------------------

MaxItems == 2
MaxWorkers == 2
MaxCalls == 2

\* process_func(item) for an item on which it does not raise.
process_func(item) == 10 * item

\* TaskQueue.__init__ and ParallelProcessor.__init__
NewParallelProcessor(num_workers) ==
    [call |-> 0, next |-> 1, sent |-> 0,
     queue |-> << >>, unfinished |-> 0, is_running |-> FALSE,
     workers |-> [w \in 1..num_workers |-> [pc |-> "joined", task |-> 0]],
     results |-> << >>, returned |-> << >>]

\* queue.put(x): the item joins the queue and counts as unfinished.
queue_put(q, x) ==
    [q EXCEPT !.queue = Append(q.queue, x), !.unfinished = q.unfinished + 1]

InitTasks ==
    /\ op = "call"
    /\ \E n \in 0..MaxItems, num_workers \in 1..MaxWorkers :
          /\ \E raises \in SUBSET (1..n) :
                arg = [fn |-> "process_batch",
                       items |-> [i \in 1..n |-> i],
                       num_workers |-> num_workers,
                       raises |-> raises]
          /\ res = NewParallelProcessor(num_workers)

\* process_batch up to the end of task_queue.start(): results is emptied,
\* is_running set and the worker threads started.
ProcessBatchStart ==
    /\ op \in {"call", "process_batch"}
    /\ arg.fn = "process_batch"
    /\ res.call < MaxCalls
    /\ ~res.is_running
    /\ op' = "process_batch.add_task"
    /\ res' = [res EXCEPT
                 !.call = res.call + 1,
                 !.results = << >>,
                 !.is_running = TRUE,
                 !.next = 1,
                 !.sent = 0,
                 !.workers = [w \in DOMAIN res.workers |->
                                 [pc |-> "while", task |-> 0]]]
    /\ UNCHANGED arg

\* One round of the loop over the items: task_queue.add_task(task).
AddTask ==
    /\ op = "process_batch.add_task"
    /\ res.next <= Len(arg.items)
    /\ res' = [IF res.is_running THEN queue_put(res, res.next) ELSE res
                 EXCEPT !.next = res.next + 1]
    /\ UNCHANGED << op, arg >>

\* wait_completion: queue.join() returns once no task is unfinished; stop()
\* then clears is_running.
WaitCompletion ==
    /\ op = "process_batch.add_task"
    /\ res.next > Len(arg.items)
    /\ res.unfinished = 0
    /\ op' = "process_batch.stop"
    /\ res' = [res EXCEPT !.is_running = FALSE]
    /\ UNCHANGED arg

\* stop(): one None for each worker.
PutSentinel ==
    /\ op = "process_batch.stop"
    /\ res.sent < arg.num_workers
    /\ res' = [queue_put(res, 0) EXCEPT !.sent = res.sent + 1]
    /\ UNCHANGED << op, arg >>

\* stop(): every worker is joined, workers is cleared and process_batch
\* returns results.
JoinWorkers ==
    /\ op = "process_batch.stop"
    /\ res.sent = arg.num_workers
    /\ \A w \in DOMAIN res.workers : res.workers[w].pc = "exited"
    /\ op' = "process_batch"
    /\ res' = [res EXCEPT
                 !.workers = [w \in DOMAIN res.workers |->
                                 [pc |-> "joined", task |-> 0]],
                 !.returned = res.results]
    /\ UNCHANGED arg

\* _worker: the test of `while self.is_running`.
WorkerWhile(w) ==
    /\ res.workers[w].pc = "while"
    /\ res' = [res EXCEPT
                 !.workers[w].pc = IF res.is_running THEN "get" ELSE "exited"]
    /\ UNCHANGED << op, arg >>

\* _worker: queue.get(timeout=1) returns the head of the queue; None ends
\* the thread without task_done.
WorkerGet(w) ==
    /\ res.workers[w].pc = "get"
    /\ res.queue # << >>
    /\ res' = [res EXCEPT
                 !.queue = Tail(res.queue),
                 !.workers[w] = IF Head(res.queue) = 0
                                THEN [pc |-> "exited", task |-> 0]
                                ELSE [pc |-> "callback",
                                      task |-> Head(res.queue)]]
    /\ UNCHANGED << op, arg >>

\* _worker: queue.get(timeout=1) raises Empty on an empty queue; the except
\* branch leads back to the test of the loop.
WorkerEmpty(w) ==
    /\ res.workers[w].pc = "get"
    /\ res.queue = << >>
    /\ res' = [res EXCEPT !.workers[w].pc = "while"]
    /\ UNCHANGED << op, arg >>

\* results after task_callback(item): the result is appended unless
\* process_func raises, which the worker catches.
task_callback(results, item, raises) ==
    IF item \in raises THEN results
    ELSE Append(results, process_func(item))

\* _worker: task.callback(task.data), then queue.task_done().
WorkerCallback(w) ==
    /\ res.workers[w].pc = "callback"
    /\ res' = [res EXCEPT
                 !.results = task_callback(res.results,
                                           arg.items[res.workers[w].task],
                                           arg.raises),
                 !.unfinished = res.unfinished - 1,
                 !.workers[w] = [pc |-> "while", task |-> 0]]
    /\ UNCHANGED << op, arg >>

Worker(w) ==
    WorkerWhile(w) \/ WorkerGet(w) \/ WorkerEmpty(w) \/ WorkerCallback(w)

MainThread ==
    ProcessBatchStart \/ AddTask \/ WaitCompletion \/ PutSentinel
        \/ JoinWorkers

NextTasks == MainThread \/ \E w \in 1..MaxWorkers : w \in DOMAIN res.workers /\ Worker(w)

SpecTasks == InitTasks /\ [][NextTasks]_vars

\* Every thread that can take a step is scheduled in the end: the main
\* thread and every worker thread.
SpecTasksFair ==
    /\ SpecTasks
    /\ WF_vars(MainThread)
    /\ \A w \in 1..MaxWorkers : WF_vars(w \in DOMAIN res.workers /\ Worker(w))

\* ------------------------------------------------------------------------
\* Calls of process_single and process_batch, one after another, on one
\* ImageProcessor: fill_image_cache lives on from call to call.
\* ------------------------------------------------------------------------

\* Paths that differ in the stem, and paths that differ in the extension
\* only.
CallPaths ==
    {[parent |-> "in", stem |-> "a", suffix |-> ".jpg"],
     [parent |-> "in", stem |-> "b", suffix |-> ".jpg"],
     [parent |-> "in", stem |-> "a", suffix |-> ".png"]}

\* The batches of at most two files, no path twice.
CallFiles ==
    {<< >>} \cup {<< p >> : p \in CallPaths}
    \cup {f \in [1..2 -> CallPaths] : f[1] # f[2]}

\* The options of process_single: those of a batch, and a second fill
\* image.
SingleOptions ==
    Options \cup {ProcessingOptions("image", "other.png", TRUE, FALSE)}

\* The options of a batch here: black fill, or one of two fill images.
BatchOptions ==
    {ProcessingOptions("black", None, TRUE, FALSE),
     ProcessingOptions("image", "fill.png", TRUE, FALSE),
     ProcessingOptions("image", "other.png", TRUE, FALSE)}

CallArgs ==
    [fn : {"process_single"}, input_path : CallPaths, output_dir : {"out"},
     options : SingleOptions]
    \cup [fn : {"process_batch"}, input_files : CallFiles,
          output_dir : {"out"}, options : BatchOptions,
          progress_callback : {FALSE}]

InitCalls ==
    /\ op = "call"
    /\ arg \in CallArgs
    /\ res = NewProcessor

\* A call of process_single from outside a batch, under the outcomes e,
\* which are kept with the result.
ProcessSingle ==
    /\ op = "call"
    /\ arg.fn = "process_single"
    /\ \E e \in Outcomes :
          LET single == process_single(arg.input_path, arg.output_dir,
                            arg.options, res.fill_image_cache, e)
          IN  res' = [results |-> << single.result >>,
                      fill_image_cache |->
                          IF e.loads
                          THEN cache_after(arg.options,
                                           res.fill_image_cache, e)
                          ELSE res.fill_image_cache,
                      progress |-> << >>,
                      failures |-> << Failure(arg.options, e) >>,
                      saved |-> single.saved,
                      outcome |-> e]
    /\ op' = "process_single"
    /\ UNCHANGED arg

\* The caller makes its next call on the same processor: only the cache
\* is carried over.
NextCall ==
    /\ op \in {"process_single", "process_batch"}
    /\ op' = "call"
    /\ arg' \in CallArgs
    /\ res' = [NewProcessor EXCEPT
                 !.fill_image_cache = res.fill_image_cache]

NextCalls ==
    ProcessSingle \/ BatchPreload \/ BatchFile \/ BatchReturn \/ NextCall

SpecCalls == InitCalls /\ [][NextCalls]_vars

\* ------------------------------------------------------------------------
\* C1, C2
\* ------------------------------------------------------------------------

\* C1 (as claimed): for every valid quad P, in any input order,
\* order_points(order_points(P)) = order_points(P), so that the ordering
\* calculate_perspective_size makes of the ordered points is the ordering
\* its caller holds.
C1_Idempotent ==
    (op = "calculate_perspective_size" /\ ValidQuad(arg.points))
        => res.rect = res.ordered

\* C2: the corners of an axis-aligned rectangle, in any of the 24 input
\* orders, come out as [top-left, top-right, bottom-right, bottom-left].
C2_RectangleOrdered ==
    (op = "order_points" /\ IsRectangle(arg.points)) =>
        LET o == res.ordered
            xs == {arg.points[i][1] : i \in 1..4}
            ys == {arg.points[i][2] : i \in 1..4}
            x1 == CHOOSE x \in xs : \A z \in xs : x <= z
            x2 == CHOOSE x \in xs : \A z \in xs : x >= z
            y1 == CHOOSE y \in ys : \A z \in ys : y <= z
            y2 == CHOOSE y \in ys : \A z \in ys : y >= z
        IN  /\ o = << <<x1, y1>>, <<x2, y1>>, <<x2, y2>>, <<x1, y2>> >>
            /\ o[1][1] < o[2][1]
            /\ o[1][2] < o[3][2]

\* A rectangle given bottom-right first (the order of test_order_points)
\* has been ordered.
C2_Witness ==
    /\ op = "order_points"
    /\ IsRectangle(arg.points)
    /\ arg.points[1][1] > arg.points[2][1]
    /\ arg.points[1][2] > arg.points[2][2]

\* ------------------------------------------------------------------------
\* C3
\* ------------------------------------------------------------------------

\* -1, 0 or 1 as n * x < k, n * x = k or n * x > k, the product of the
\* natural number n and the float x < 2^52 taken exactly.
ProdCmp(n, x, k) ==
    IF k < 0 THEN 1
    ELSE BigCmp(BigMulSmall(x.m, n), BigShl(BigFromInt(k), 52 - x.e))

\* |k - n * x| < 1 for natural numbers k, n and a float x.
NearProduct(k, n, x) == ProdCmp(n, x, k - 1) > 0 /\ ProdCmp(n, x, k + 1) < 0

\* |k - n / x| < 1 for natural numbers k, n and a float x > 0.
NearQuotient(k, n, x) ==
    /\ k > 0 => ProdCmp(k - 1, x, n) < 0
    /\ ProdCmp(k + 1, x, n) > 0

\* abs(w / h - r) < 0.01 as Python evaluates it; w / 0 raises.
RatioWithinTolerance(w, h, r) ==
    h # 0 /\ FLess(FAbsDiff(FDivInt(w, h), r), Tolerance)

\* C3 as stated: for a non-empty image and a positive ratio r, the width and
\* height of the result of crop_to_aspect_ratio satisfy |w'/h' - r| < 0.01.
C3_WithinTolerance ==
    op = "crop_to_aspect_ratio" =>
        RatioWithinTolerance(res.w, res.h, arg.aspect_ratio)

\* C3, amended: crop_to_aspect_ratio returns its input when |w/h - r| < 0.01;
\* otherwise it crops one axis only, the width to less than one pixel from
\* h * r when w/h > r and else the height to less than one pixel from w / r,
\* never enlarging, centred (rounding the margin down) or from the origin.
C3_CropsOneAxis ==
    op = "crop_to_aspect_ratio" =>
        LET w == arg.image.w
            h == arg.image.h
            r == arg.aspect_ratio
        IN  IF RatioWithinTolerance(w, h, r) THEN res = arg.image
            ELSE IF FLess(r, FDivInt(w, h))
            THEN /\ res.h = h /\ res.y = 0
                 /\ res.w < w
                 /\ NearProduct(res.w, h, r)
                 /\ res.x = IF arg.from_center THEN (w - res.w) \div 2 ELSE 0
            ELSE /\ res.w = w /\ res.x = 0
                 /\ res.h < h
                 /\ NearQuotient(res.h, w, r)
                 /\ res.y = IF arg.from_center THEN (h - res.h) \div 2 ELSE 0

\* A crop was made, and the cropped image is not within 0.01 of the ratio.
C3_Witness ==
    /\ op = "crop_to_aspect_ratio"
    /\ res.kind = "view"
    /\ res.w > 0 /\ res.h > 0
    /\ ~RatioWithinTolerance(res.w, res.h, arg.aspect_ratio)

\* ------------------------------------------------------------------------
\* C4, C5
\* ------------------------------------------------------------------------

\* C4: resize_to_fit(image, W, H) returns an image of exactly W x H for every
\* non-empty image and W, H >= 1, also when the scaled size rounds to 0.
C4_FitExact ==
    op = "resize_to_fit" =>
        res.w = arg.target_width /\ res.h = arg.target_height

\* C5: resize_to_fill(image, W, H) returns an image of exactly W x H for
\* every non-empty image and W, H >= 1, the scaled size covering the
\* target (new_w >= W and new_h >= H).
C5_FillExact ==
    op = "resize_to_fill" =>
        LET new == fill_size(arg.image.w, arg.image.h,
                             arg.target_width, arg.target_height)
        IN  /\ new[1] >= arg.target_width
            /\ new[2] >= arg.target_height
            /\ res.w = arg.target_width
            /\ res.h = arg.target_height

\* ------------------------------------------------------------------------
\* C10
\* ------------------------------------------------------------------------

\* C10: crop_to_bbox(image, x, y, width, height) returns exactly the part of
\* the rectangle [x, x + width) x [y, y + height) that lies inside the image,
\* and an empty region when no part of it does.
C10_Intersection ==
    op = "crop_to_bbox" =>
        LET xa == Max2(arg.x, 0)
            xb == Min2(arg.x + arg.width, arg.image.w)
            ya == Max2(arg.y, 0)
            yb == Min2(arg.y + arg.height, arg.image.h)
        IN  IF xa < xb /\ ya < yb
            THEN /\ res.x = xa /\ res.w = xb - xa
                 /\ res.y = ya /\ res.h = yb - ya
            ELSE res.w = 0 \/ res.h = 0

\* ------------------------------------------------------------------------
\* C7, C8, C9
\* ------------------------------------------------------------------------

\* C7: apply_homography returns None whenever src_points or dst_points does
\* not hold exactly 4 points, and has then called neither the homography
\* estimator nor the warp.
C7_NotFourIsNone ==
    (op = "apply_homography"
        /\ (Len(arg.src_points) # 4 \/ Len(arg.dst_points) # 4))
    => (res.out = NoImage /\ res.calls = << >>)

\* apply_homography has returned for 5 source points and 4 target points.
C7_Witness ==
    /\ op = "apply_homography"
    /\ Len(arg.src_points) = 5 /\ Len(arg.dst_points) = 4
    /\ res.out = NoImage

\* C8: extract_screen_region and correct_perspective_distortion return None
\* for every polygon of fewer than 4 points and an image for every polygon
\* of at least 4 points whose first 4 points form a non-degenerate quad.
C8_QuadGivesImage ==
    op \in {"extract_screen_region", "correct_perspective_distortion"} =>
        /\ Len(arg.polygon) < 4 => res = NoImage
        /\ (Len(arg.polygon) >= 4 /\ ValidQuad(FirstFour(arg.polygon)))
               => res # NoImage

\* The natural size of the polygon of a call.
NaturalSize == calculate_perspective_size(order_points(FirstFour(arg.polygon)))

\* A call of correct_perspective_distortion with a target ratio on a polygon
\* whose natural size is at least 1 x 1.
C9_Case ==
    /\ op = "correct_perspective_distortion"
    /\ "target_aspect_ratio" \in DOMAIN arg.opts
    /\ Len(arg.polygon) >= 4
    /\ NaturalSize[1] >= 1 /\ NaturalSize[2] >= 1

\* abs(w / h - r) < 0.1 as Python evaluates it; w / 0 raises.
RatioWithinTenth(w, h, r) ==
    h # 0 /\ FLess(FAbsDiff(FDivInt(w, h), r), FDivInt(1, 10))

\* The size C9 gives: (floor(h * r), h) if w / h > r, else (w, floor(w / r)),
\* the floor read as the integer Python's int() makes of the float product
\* or quotient, which is less than one pixel from the exact one.
C9_SizeAsStated(size, w, h, r) ==
    IF FLess(r, FDivInt(w, h))
    THEN size[2] = h /\ NearProduct(size[1], h, r)
    ELSE size[1] = w /\ NearQuotient(size[2], w, r)

\* C9 as stated: with a target ratio r and a natural size (w, h), w, h >= 1,
\* the output size is (floor(h*r), h) if w/h > r and (w, floor(w/r))
\* otherwise, no dimension is enlarged, and the output width / height is
\* within 0.1 of r.
C9_WithinTenth ==
    C9_Case =>
        /\ C9_SizeAsStated(<< res.w, res.h >>, NaturalSize[1], NaturalSize[2],
                           arg.opts.target_aspect_ratio)
        /\ res.w <= NaturalSize[1] /\ res.h <= NaturalSize[2]
        /\ RatioWithinTenth(res.w, res.h, arg.opts.target_aspect_ratio)

\* C9, amended: with a target ratio r and a natural size (w, h), w, h >= 1,
\* the size asked of the warp is (int(h*r), h) if w/h > r and (w, int(w/r))
\* otherwise, the shrunk side less than one pixel from h*r or w/r and no
\* side enlarged; it is the size of the output whenever neither side is 0;
\* the example quad gives 400 x 225 at r = 16/9.
C9_SizeFormula ==
    C9_Case =>
        LET c == constrain_size(NaturalSize[1], NaturalSize[2],
                                arg.opts.target_aspect_ratio)
        IN  /\ C9_SizeAsStated(c, NaturalSize[1], NaturalSize[2],
                               arg.opts.target_aspect_ratio)
            /\ c[1] <= NaturalSize[1] /\ c[2] <= NaturalSize[2]
            /\ (c[1] >= 1 /\ c[2] >= 1) => (res.w = c[1] /\ res.h = c[2])
            /\ (arg.polygon = ExampleQuad
                /\ arg.opts.target_aspect_ratio = FDivInt(16, 9))
               => (res.w = 400 /\ res.h = 225)

\* The example quad has been corrected to 16:9.
C9_Witness ==
    /\ C9_Case
    /\ arg.polygon = ExampleQuad
    /\ arg.opts.target_aspect_ratio = FDivInt(16, 9)
    /\ res = Warped(400, 225)

\* ------------------------------------------------------------------------
\* C6
\* ------------------------------------------------------------------------

\* No pixel of the mask of the call exceeds 127.
MaskEmpty ==
    \A y \in 0..(arg.mask.h - 1), x \in 0..(arg.mask.w - 1) :
        arg.mask.px[y][x] <= 127

\* C6: when no mask pixel exceeds 127, replace_screen_with_image returns the
\* input image, of the same size and with every pixel as it was, for blend
\* True and for blend False and whatever the content is.
C6_EmptyMaskNoOp ==
    (op = "replace_screen_with_image" /\ MaskEmpty) => res = arg.laptop_image

\* A call with blending has returned for a mask that holds 127 but nothing
\* above it, and a content that differs from every pixel of the image.
C6_Witness ==
    /\ op = "replace_screen_with_image"
    /\ MaskEmpty
    /\ \E y \in 0..(arg.mask.h - 1), x \in 0..(arg.mask.w - 1) :
           arg.mask.px[y][x] = 127
    /\ arg.blend
    /\ arg.screen_content.w > 0
    /\ \A y \in 0..(ImgH - 1), x \in 0..(ImgW - 1) :
           arg.laptop_image.px[y][x] # arg.screen_content.value

\* ------------------------------------------------------------------------
\* C11
\* ------------------------------------------------------------------------

\* C11: smart_crop of an image with w, h >= 1 to a target W, H >= 1 returns
\* the input unchanged when (w, h) = (W, H) and otherwise an image of
\* exactly width W and height H, also when the intermediate aspect crop
\* rounds a side down to 0.
C11_SmartCropExact ==
    op = "smart_crop" =>
        IF arg.image.w = arg.target_width /\ arg.image.h = arg.target_height
        THEN res = arg.image
        ELSE res.w = arg.target_width /\ res.h = arg.target_height

\* ------------------------------------------------------------------------
\* C12
\* ------------------------------------------------------------------------

\* C12: the public crop, pad and resize operations, get_optimal_scale
\* included, return a value and let no exception escape for any argument
\* values (zero or negative targets, zero-sized images): a call of
\* get_optimal_scale ends with a scale, never with an exception.
C12_NoExceptionEscapes ==
    op = "get_optimal_scale" => "value" \in DOMAIN res

\* ------------------------------------------------------------------------
\* C13
\* ------------------------------------------------------------------------

\* The results so far are those of the first files, in input order; the
\* result of a file on which something failed has success = False and an
\* error, and the result of every other file has success = True.
ResultsMatchFiles ==
    op \in {"process_batch.for", "process_batch"} =>
        /\ Len(res.results) <= Len(arg.input_files)
        /\ Len(res.failures) = Len(res.results)
        /\ \A k \in 1..Len(res.results) :
              /\ res.results[k].input_path = arg.input_files[k]
              /\ IF res.failures[k] = "ok"
                 THEN res.results[k].success /\ res.results[k].error = None
                 ELSE ~res.results[k].success /\ res.results[k].error # None

C14_ExactlyMaskPixels ==
    (/\ op = "replace_screen_with_image"
     /\ ~arg.blend
     /\ arg.screen_content.w > 0 /\ arg.screen_content.h > 0) =>
        \A y \in 0..(ImgH - 1), x \in 0..(ImgW - 1) :
            res.px[y][x] = IF arg.mask.px[y][x] > 127
                           THEN arg.screen_content.value
                           ELSE arg.laptop_image.px[y][x]

\* ------------------------------------------------------------------------
\* C15
\* ------------------------------------------------------------------------

\* The colour a fill call fills with: black for fill_screen_black.
FillColour == IF arg.fn = "fill_screen_color" THEN arg.color ELSE 0

\* C15: fill_screen_color and fill_screen_black return an image in which
\* every pixel with mask > 127 has the fill colour and every pixel with
\* mask <= 127 (127 included) has the value of the input pixel, and the
\* buffer of the caller is as it was before the call.
C15_FillByMask ==
    op \in {"fill_screen_color", "fill_screen_black"} =>
        /\ \A y \in 0..(ImgH - 1), x \in 0..(ImgW - 1) :
              res.result.px[y][x] = IF arg.mask.px[y][x] > 127
                                    THEN FillColour
                                    ELSE arg.image.px[y][x]
        /\ res.image = arg.image

\* A fill that changes a pixel where the mask is 128 and keeps one where it
\* is 127.
C15_Witness ==
    /\ op \in {"fill_screen_color", "fill_screen_black"}
    /\ \E y \in 0..(ImgH - 1), x \in 0..(ImgW - 1) :
          /\ arg.mask.px[y][x] = 128
          /\ res.result.px[y][x] # arg.image.px[y][x]
    /\ \E y \in 0..(ImgH - 1), x \in 0..(ImgW - 1) :
          /\ arg.mask.px[y][x] = 127
          /\ res.result.px[y][x] = arg.image.px[y][x]
          /\ arg.image.px[y][x] # FillColour

\* ------------------------------------------------------------------------
\* C16
\* ------------------------------------------------------------------------

\* C16: for 4 collinear points, on a horizontal, vertical or diagonal line,
\* calculate_perspective_size returns a width of 0 or a height of 0.
C16_CollinearHasZeroSide ==
    (op = "calculate_perspective_size" /\ arg.points \in CollinearInputs)
        => (res[1] = 0 \/ res[2] = 0)

\* ------------------------------------------------------------------------
\* C17
\* ------------------------------------------------------------------------

\* C17: calculate_perspective_size returns width = floor(max(|br-bl|,
\* |tr-tl|)) and height = floor(max(|tr-br|, |tl-bl|)) of the ordered quad;
\* each is at least the floor of both edge lengths of its axis, both are
\* > 0 for every non-degenerate quad, and they are x2 - x1 and y2 - y1 for
\* an axis-aligned rectangle.
C17_SizeOfQuad ==
    op = "calculate_perspective_size" =>
        LET tl == res.rect[1]
            tr == res.rect[2]
            br == res.rect[3]
            bl == res.rect[4]
            xs == {arg.points[i][1] : i \in 1..4}
            ys == {arg.points[i][2] : i \in 1..4}
        IN  /\ res.size[1] = Max2(Isqrt(Dist2(br, bl)), Isqrt(Dist2(tr, tl)))
            /\ res.size[2] = Max2(Isqrt(Dist2(tr, br)), Isqrt(Dist2(tl, bl)))
            /\ res.size[1] \in Nat /\ res.size[2] \in Nat
            /\ ValidQuad(arg.points) => res.size[1] > 0 /\ res.size[2] > 0
            /\ IsRectangle(arg.points) =>
                  /\ res.size[1] = SetMax(xs) - SetMin(xs)
                  /\ res.size[2] = SetMax(ys) - SetMin(ys)

\* ------------------------------------------------------------------------
\* C18
\* ------------------------------------------------------------------------

\* C18: round trip for an axis-aligned rectangle Q inside the image:
\* warp_image_to_polygon(extract_screen_region(image, Q), Q, image size)
\* uses the corner correspondence of the extraction the other way round, and
\* puts every pixel (u, v) of the extracted image at the position of the
\* image it was taken from.
C18_RoundTrip ==
    op = "warp_image_to_polygon" =>
        /\ res.back.src = res.matrix.dst
        /\ res.back.dst = res.matrix.src
        /\ \A u \in 0..(res.extracted.w - 1), v \in 0..(res.extracted.h - 1) :
              \A q \in perspective_point(res.back, << Rat(u), Rat(v) >>) :
                 \A r \in perspective_point(res.matrix, q) :
                    RatEq(r[1], Rat(u)) /\ RatEq(r[2], Rat(v))

\* ------------------------------------------------------------------------
\* C19
\* ------------------------------------------------------------------------

\* C19: warp_image_to_polygon always returns, and apply_homography returns
\* whenever it returns a result, a buffer of exactly the requested canvas
\* height and width, whatever the content size and the polygon; on the
\* fallback paths of warp_image_to_polygon (fewer than 4 points, an error
\* inside) the buffer is the all-zero one of that size.
C19_CanvasSize ==
    /\ op = "warp_image_to_polygon" =>
          /\ res.h = arg.canvas_shape[1] /\ res.w = arg.canvas_shape[2]
          /\ (Len(arg.polygon) < 4 \/ arg.image.w = 0 \/ arg.image.h = 0)
                => res = ZeroCanvas(arg.canvas_shape)
    /\ (op = "apply_homography" /\ res.out # NoImage) =>
          res.out.h = arg.output_shape[1] /\ res.out.w = arg.output_shape[2]

\* ------------------------------------------------------------------------
\* C20
\* ------------------------------------------------------------------------

\* The size the claim gives for an input of w x h with maintain_aspect:
\* (width, floor(h * width / w)) when the width decides (only the width is
\* given, or width / w <= height / h), (floor(w * height / h), height)
\* otherwise.
AspectSize(w, h, size) ==
    IF "height" \notin DOMAIN size
       \/ ("width" \in DOMAIN size /\ size.width * h <= size.height * w)
    THEN << size.width, (h * size.width) \div w >>
    ELSE << (w * size.height) \div h, size.height >>

\* C20: the output size of resize for an input of w x h: the input itself
\* when width and height are both None; with maintain_aspect
\* (width, floor(h * width / w)) for a width only,
\* (floor(w * height / h), height) for a height only, and
\* (floor(w * s), floor(h * s)), s = min(width / w, height / h), for both,
\* which fits inside width x height; without maintain_aspect and with both,
\* exactly (width, height).
C20_ResizeSize ==
    op = "resize" =>
        IF DOMAIN arg.size = {} THEN res = arg.image
        ELSE IF arg.maintain_aspect
        THEN /\ << res.w, res.h >>
                    = AspectSize(arg.image.w, arg.image.h, arg.size)
             /\ "width" \in DOMAIN arg.size => res.w <= arg.size.width
             /\ "height" \in DOMAIN arg.size => res.h <= arg.size.height
        ELSE DOMAIN arg.size = {"width", "height"} =>
                 res.w = arg.size.width /\ res.h = arg.size.height

\* ------------------------------------------------------------------------
\* C21
\* ------------------------------------------------------------------------

\* C21: pad_to_aspect_ratio never removes pixels and pads one axis only: the
\* total pad p of that axis is >= 0, the leading side (left or top) gets
\* floor(p / 2) and the trailing side (right or bottom) p - floor(p / 2),
\* one pixel more exactly when p is odd; the other axis keeps its size.
C21_PadsOneAxis ==
    op = "pad_to_aspect_ratio" =>
        LET pw == res.w - arg.image.w
            ph == res.h - arg.image.h
        IN  /\ pw >= 0 /\ ph >= 0
            /\ pw = 0 \/ ph = 0
            /\ res.x = pw \div 2 /\ res.y = ph \div 2
            /\ (pw - res.x) - res.x = pw % 2
            /\ (ph - res.y) - res.y = ph % 2

\* A padded image with an odd pad: the trailing side is one pixel wider.
C21_Witness ==
    /\ op = "pad_to_aspect_ratio"
    /\ res.kind = "padded"
    /\ ((res.w - arg.image.w) % 2 = 1 \/ (res.h - arg.image.h) % 2 = 1)
    /\ (res.w - arg.image.w - res.x > res.x
            \/ res.h - arg.image.h - res.y > res.y)


\* The pixels of the argument outside the band of +-30 round the
\* background colour.
C22_Foreground == foreground_mask(arg.image, arg.background_color)

C23_AtLeastThreePoints ==
    (op \in {"mask_to_polygon", "_mask_to_polygon"}) =>
        (res.returned = "Polygon" => Len(res.points) >= 3)


\* trunc(content * wt + original * (1 - wt)) for the weight wt = num / den,
\* in exact arithmetic.
C24_Exact(content, original, num, den) ==
    (content * num + original * (den - num)) \div den

\* The sample at row y, column x of a blended result is v: the content
\* sample, the original sample and the weight as a fraction, for
\* replace_screen_with_image and for replace_screen_with_perspective.
C24_Sample(y, x, P(_, _, _, _)) ==
    IF op = "replace_screen_with_image"
    THEN P(arg.screen_content.value, arg.laptop_image.px[y][x],
           Blur256(arg.mask, MaskBox(arg.mask), y, x), 65280)
    ELSE P(warped_sample(order_points(SubSeq(arg.polygon, 1, 4)),
                         arg.screen_content, y, x),
           arg.laptop_image.px[y][x],
           BlurU8(polygon_mask(arg.laptop_image,
                               order_points(SubSeq(arg.polygon, 1, 4))),
                  y, x),
           255)

\* The call was a blended replacement that went through, and row y, column
\* x is one of the pixels it blended.
C24_Blended(y, x) ==
    \/ /\ op = "replace_screen_with_image"
       /\ arg.blend
       /\ res.kind = "copy"
       /\ InBox(MaskBox(arg.mask), y, x)
    \/ /\ op = "replace_screen_with_perspective"
       /\ res.kind = "blended"

C25_OrderIsPermutation ==
    (op = "order_points" /\ ValidQuad(arg.points)) =>
        \E f \in Perms4 : res.ordered = [i \in 1..4 |-> arg.points[f[i]]]


\* C26: every call of process_batch on one ParallelProcessor returns in
\* the end, the second call as well as the first.
C26_EveryCallReturns ==
    \A c \in 1..MaxCalls :
        (op = "process_batch.add_task" /\ res.call = c)
            ~> (op = "process_batch" /\ res.call = c)

\* C27: process_batch returns the list of the sequential map: one result
\* for each item, in the order of the items, also when process_func raises
\* on an item.
C27_SequentialMap ==
    (op = "process_batch") =>
        /\ Len(res.returned) = Len(arg.items)
        /\ \A i \in 1..Len(arg.items) :
              res.returned[i] = process_func(arg.items[i])


\* C28: in any sequence of process_single and process_batch calls on one
\* ImageProcessor with fill_mode IMAGE, the content put into the screen of
\* an image is the one loaded from the fill_image_path of the options of
\* that call.
C28_ContentOfThisCall ==
    (op \in {"process_single", "process_batch"}
        /\ arg.options.fill_mode = "image") =>
        \A i \in 1..Len(res.saved) :
            \A k \in 1..Len(res.saved[i].steps) :
                res.saved[i].steps[k].call
                    \in {"replace_screen_with_perspective",
                         "replace_screen_with_image"}
                    => res.saved[i].steps[k].content
                           = arg.options.fill_image_path

\* C29: in a batch of pairwise distinct input paths the output paths of the
\* files processed with success are pairwise distinct.
C29_DistinctOutputs ==
    (op = "process_batch") =>
        \A i, j \in 1..Len(res.results) :
            (i # j /\ arg.input_files[i] # arg.input_files[j]
                /\ res.results[i].success /\ res.results[j].success)
                => res.results[i].output_path # res.results[j].output_path


\* The image process_single writes when the detector finds no screen and
\* the fill mode is NONE: the loaded image after the cropping and resizing
\* steps the options ask for.
C30_Unfilled ==
    crop_and_resize([src |-> arg.input_path, steps |-> << >>], arg.options)

\* C30: when process_single has loaded the image and the detector finds no
\* screen, a fill mode other than NONE gives success = False,
\* screen_detected = False, an error and no file written; the fill mode
\* NONE gives screen_detected = False and the cropped and resized image
\* saved when the directory and the save succeed.  In every outcome success
\* holds exactly when the file was saved, and then output_path is set.
C30_NoScreen ==
    (op = "process_single") =>
        LET r == res.results[1]
            e == res.outcome
        IN  /\ (e.loads /\ e.detect.kind = "None"
                   /\ arg.options.fill_mode # "none") =>
                  /\ ~r.success
                  /\ ~r.screen_detected
                  /\ r.error # None
                  /\ res.saved = << >>
            /\ (e.loads /\ e.detect.kind = "None"
                   /\ arg.options.fill_mode = "none") =>
                  /\ ~r.screen_detected
                  /\ (e.mkdir /\ e.saves) =>
                        r.success /\ res.saved = << C30_Unfilled >>
            /\ r.success <=> res.saved # << >>
            /\ r.success =>
                  r.output_path =
                      << arg.output_dir,
                         get_output_filename(arg.input_path,
                             arg.options.output_format,
                             arg.options.output_suffix) >>
            /\ ~r.success => r.output_path = None /\ r.error # None

\* No screen is found and the fill mode is NONE: the image is cropped,
\* resized and saved all the same.
C30_Witness ==
    /\ op = "process_single"
    /\ res.outcome.loads
    /\ res.outcome.detect.kind = "None"
    /\ arg.options.fill_mode = "none"
    /\ arg.options.auto_crop
    /\ res.results[1].success
    /\ Len(res.saved) = 1
    /\ Len(res.saved[1].steps) = 3

====
